---------------------------- MODULE Spec2Model ----------------------------
(***************************************************************************)
(* Onkyo eISCP integration: the frame codec, the protocol connection       *)
(* (OnkyoEISCP) with its background listener, and the device wrapper       *)
(* (OnkyoDevice.connect / disconnect) that reports lifecycle events.       *)
(*                                                                         *)
(* Strings are sequences of code points, byte strings are sequences of     *)
(* numbers in 0..255.                                                      *)
(***************************************************************************)
EXTENDS Integers, Sequences, FiniteSets, TLC

(***************************************************************************)
(* Bounds of the model.                                                    *)
(***************************************************************************)
MaxSock == 2      \* successful connect() calls (each opens a socket)
MaxFrames == 2    \* chunks the peers send over all sockets (listener on its own)
MaxReplies == 1   \* chunks the peers send over all sockets (connection and device)
MaxRegs == 2      \* register_callback calls
MaxSends == 1     \* packets send_command hands to a socket
MaxValLen == 3     \* length of a value given to the codec
MaxUpdates == 1    \* update() calls
MaxTimeout == 2    \* ticks given to discover_receivers as its timeout
MaxDatagrams == 3  \* datagrams one discovery receives
MaxEvents == 3     \* events the remote sends to the driver
MaxPending == 1    \* connect() tasks of one device created and not yet run
MaxFaults == 1     \* polls that raise
MaxConfigOps == 4  \* calls made to the configuration
NumDevices == 2   \* devices side by side
MaxInbound == 2   \* frames each of them is sent

(***************************************************************************)
(* Frame codec: struct.pack / struct.unpack, UTF-8, str.strip.             *)
(***************************************************************************)
HeaderLen == 16

MAGIC == <<73, 83, 67, 80>>                        \* b"ISCP"

\* struct.pack("!I", n): big-endian unsigned 32 bit
PackU32(n) ==
    << (n \div 16777216) % 256, (n \div 65536) % 256, (n \div 256) % 256, n % 256 >>

\* struct.unpack("!I", b); a value of 2^31 or more is longer than every stream
\* here and reads as 2^31 - 1
UnpackU32(b) ==
    IF b[1] < 128 THEN b[1] * 16777216 + b[2] * 65536 + b[3] * 256 + b[4]
    ELSE 2147483647

\* str.encode("utf-8") for code points below 0x800
RECURSIVE Utf8Encode(_)
Utf8Encode(s) ==
    IF s = <<>> THEN <<>>
    ELSE LET c == Head(s) IN
         (IF c < 128 THEN <<c>> ELSE <<192 + (c \div 64), 128 + (c % 64)>>)
             \o Utf8Encode(Tail(s))

\* whether bytes.decode("utf-8") succeeds (one- and two-byte sequences)
RECURSIVE Utf8Valid(_)
Utf8Valid(b) ==
    IF b = <<>> THEN TRUE
    ELSE IF b[1] < 128 THEN Utf8Valid(Tail(b))
    ELSE IF b[1] >= 194 /\ b[1] <= 223 /\ Len(b) >= 2 /\ b[2] >= 128 /\ b[2] <= 191
         THEN Utf8Valid(Tail(Tail(b)))
    ELSE FALSE

\* bytes.decode("utf-8") of a valid byte string
RECURSIVE Utf8Decode(_)
Utf8Decode(b) ==
    IF b = <<>> THEN <<>>
    ELSE IF b[1] < 128 THEN <<b[1]>> \o Utf8Decode(Tail(b))
    ELSE <<(b[1] - 192) * 64 + (b[2] - 128)>> \o Utf8Decode(Tail(Tail(b)))

\* the code points below 256 for which str.isspace() is true
Whitespace == {9, 10, 11, 12, 13, 28, 29, 30, 31, 32, 133, 160}

\* the characters of rstrip('\r\n\x1a')
TrailingMarkers == {13, 10, 26}

RECURSIVE LStripChars(_, _)
LStripChars(s, chars) ==
    IF s # <<>> /\ Head(s) \in chars THEN LStripChars(Tail(s), chars) ELSE s

RECURSIVE RStripChars(_, _)
RStripChars(s, chars) ==
    IF s # <<>> /\ s[Len(s)] \in chars
    THEN RStripChars(SubSeq(s, 1, Len(s) - 1), chars)
    ELSE s

\* str.strip()
Strip(s) == RStripChars(LStripChars(s, Whitespace), Whitespace)

\* str.startswith
StartsWith(s, p) == Len(s) >= Len(p) /\ SubSeq(s, 1, Len(p)) = p

UnitPrefix == <<33, 49>>                           \* "!1"

\* a _build_packet whose length field counts the command alone
build_packet_command_len(command) ==
    LET iscp_msg_bytes == Utf8Encode(UnitPrefix \o command \o <<13, 10>>)
    IN MAGIC \o PackU32(HeaderLen) \o PackU32(Len(Utf8Encode(command))) \o <<1, 0, 0, 0>>
           \o iscp_msg_bytes

\* _build_packet(command): header + "!1" + command + "\r\n"
build_packet(command) ==
    LET iscp_msg == UnitPrefix \o command \o <<13, 10>>
        iscp_msg_bytes == Utf8Encode(iscp_msg)
    IN MAGIC \o PackU32(HeaderLen) \o PackU32(Len(iscp_msg_bytes)) \o <<1, 0, 0, 0>>
           \o iscp_msg_bytes

\* struct.unpack("!4sIIB3s", header)
unpack_header(header) ==
    [magic |-> SubSeq(header, 1, 4),
     header_size |-> UnpackU32(SubSeq(header, 5, 8)),
     data_size |-> UnpackU32(SubSeq(header, 9, 12)),
     version |-> header[13]]

NoFrame == [ok |-> FALSE, cmd |-> <<>>, value |-> <<>>]

\* the listener's treatment of the decoded payload text
split_message(text) ==
    LET stripped == Strip(text)
        unprefixed == IF StartsWith(stripped, UnitPrefix)
                      THEN SubSeq(stripped, 3, Len(stripped)) ELSE stripped
        message == RStripChars(unprefixed, TrailingMarkers)
    IN IF Len(message) >= 3
       THEN [ok |-> TRUE, cmd |-> SubSeq(message, 1, 3),
             value |-> SubSeq(message, 4, Len(message))]
       ELSE NoFrame

\* the listener's decode of a payload that is valid UTF-8
decode_payload(data) == split_message(Utf8Decode(data))

\* the listener's decode path applied to one whole packet
decode_packet(packet) ==
    IF Len(packet) < HeaderLen THEN NoFrame
    ELSE LET h == unpack_header(SubSeq(packet, 1, HeaderLen))
             data == SubSeq(packet, HeaderLen + 1, HeaderLen + h.data_size)
         IN IF h.magic # MAGIC \/ Len(packet) - HeaderLen < h.data_size
               \/ ~Utf8Valid(data)
            THEN NoFrame
            ELSE decode_payload(data)


(***************************************************************************)
(* Data of the model: command codes, callbacks, what the peers send.       *)
(***************************************************************************)
PWR == <<80, 87, 82>>                              \* CMD_POWER "PWR"
MVL == <<77, 86, 76>>                              \* CMD_VOLUME "MVL"

RegCodes == {PWR, MVL}                             \* codes callbacks are registered for
Callback == {"f", "bad"}                      \* the registered functions
Raising == {"bad"}                                 \* the ones that raise an Exception

PWR01 == PWR \o <<48, 49>>                         \* "PWR01"
MVL28 == MVL \o <<50, 56>>                         \* "MVL28"

SendCommands == {<<PWR, <<48, 49>>>>}              \* (command, value) given to send_command

\* a header with a wrong magic ("XSCP") and no payload
BadHeaderA == <<88, 83, 67, 80>> \o PackU32(HeaderLen) \o PackU32(0) \o <<1, 0, 0, 0>>
\* a header whose magic is four zero bytes
BadHeaderB == <<0, 0, 0, 0>> \o PackU32(0) \o PackU32(0) \o <<0, 0, 0, 0>>
\* a well-formed header followed by a payload that is not UTF-8
BadUtf8Frame == MAGIC \o PackU32(HeaderLen) \o PackU32(2) \o <<1, 0, 0, 0>> \o <<255, 254>>
\* a frame with an empty payload
EmptyFrame == MAGIC \o PackU32(HeaderLen) \o PackU32(0) \o <<1, 0, 0, 0>>

\* a frame whose payload "!1PW\r\n" leaves two characters
ShortFrame == build_packet(<<80, 87>>)

PeerChunks ==
    {build_packet(PWR01), build_packet(MVL28), BadHeaderA, BadHeaderB,
     BadUtf8Frame, EmptyFrame, ShortFrame}

CodeChars == {49, 80, 97}                          \* "1", "P", "a"
ValueChars == {32, 33, 49, 65}                     \* " ", "!", "1", "A"

Codes3 == [1..3 -> CodeChars]
Values == UNION {[1..n -> ValueChars] : n \in 0..MaxValLen}

(***************************************************************************)
(* State.                                                                  *)
(***************************************************************************)
VARIABLES
    connected,      \* OnkyoEISCP._connected
    reader,         \* OnkyoEISCP._reader: a socket id, 0 for None
    writer,         \* OnkyoEISCP._writer: a socket id, 0 for None
    listen_task,    \* OnkyoEISCP._listen_task: a task id, 0 for None
    callbacks,      \* OnkyoEISCP._callbacks: code -> list of callbacks
    tasks,          \* the listener tasks created so far, by id
    arrived,        \* per socket: every byte the peer has sent
    pos,            \* per socket: how many of them have been read
    eof,            \* per socket: the peer closed or reset the connection
    closed,         \* per socket: writer.close() was called
    out,            \* per socket: the packets written
    nsock,          \* sockets (and listener tasks) created
    nframes,        \* chunks the peers may still send
    peerData,       \* the chunks a peer may send
    dpc,            \* disconnect(): "idle", "await_task" or "await_closed"
    dtask,          \* disconnect(): the task it awaits
    sending,        \* send_command(): the socket whose drain() it awaits, 0 if none
    active,         \* OnkyoDevice._active
    lastEvent,      \* the last lifecycle event OnkyoDevice emitted
    unreported,     \* an I/O failure flipped the state and no event followed
    calls,          \* every callback invocation, in order
    last,           \* the step taken last
    code, value, packet, decoded, cpc,  \* the codec run: input, bytes, result
    conns,          \* several devices side by side: each one's connection
    attrs,          \* OnkyoDevice: _state, _volume, _muted, _source, ...
    handled,        \* the frame the device handled last and what the handler did
    upd,            \* OnkyoDevice.update(): where the running call stands
    disc,           \* discover_receivers(): where the running call stands
    drv,            \* driver.py: _REMOTE_IN_STANDBY, _configured_avrs, the poller
    store           \* config.py: Devices._devices and the configuration file

connVars == <<connected, reader, writer, listen_task, callbacks, tasks>>
sockVars == <<arrived, pos, eof, closed, out, nsock, nframes, peerData>>
opVars == <<dpc, dtask, sending>>
devVars == <<active, lastEvent, unreported>>
codecVars == <<code, value, packet, decoded, cpc>>
auxVars == <<conns, attrs, handled, upd, disc>>
drvVars == <<drv, store>>
sideVars == <<codecVars, auxVars, drvVars>>
vars == <<connVars, sockVars, opVars, devVars, calls, last, codecVars, auxVars, drvVars>>

Socks == 1..MaxSock

\* rd, size: the reader and length of the pending read; hs, ho: the socket and
\* offset the header of the pending payload read was read at
NoTask == [pc |-> "none", rd |-> 0, size |-> 0, hs |-> 0, ho |-> 0,
           cancel |-> FALSE, res |-> "none"]

StepArg(op, t, pre, ret, n, arg) ==
    [op |-> op, t |-> t, pre |-> pre, ret |-> ret, n |-> n, arg |-> arg]
Step(op, t, pre, ret, n) == StepArg(op, t, pre, ret, n, <<0, 0>>)
\* a step no property reads
Other == Step("other", 0, FALSE, "none", 0)

\* bytes of socket s not read yet
Avail(s) == Len(arrived[s]) - pos[s]
\* the next n bytes of socket s
Take(s, n) == SubSeq(arrived[s], pos[s] + 1, pos[s] + n)

RECURSIVE SumLen(_, _)
SumLen(f, S) ==
    IF S = {} THEN 0
    ELSE LET x == CHOOSE y \in S : TRUE IN Len(f[x]) + SumLen(f, S \ {x})

TotalOut == SumLen(out, Socks)                     \* packets written, all sockets
TotalRegs == SumLen(callbacks, DOMAIN callbacks)
(***************************************************************************)
(* Initial state: OnkyoDevice.__init__ / OnkyoEISCP.__init__.              *)
(***************************************************************************)
ConnInit ==
    /\ connected = FALSE
    /\ reader = 0
    /\ writer = 0
    /\ listen_task = 0
    /\ tasks = [t \in Socks |-> NoTask]
    /\ arrived = [s \in Socks |-> <<>>]
    /\ pos = [s \in Socks |-> 0]
    /\ eof = [s \in Socks |-> FALSE]
    /\ closed = [s \in Socks |-> FALSE]
    /\ out = [s \in Socks |-> <<>>]
    /\ nsock = 0
    /\ dpc = "idle"
    /\ dtask = 0
    /\ sending = 0
    /\ active = FALSE
    /\ lastEvent = "NONE"
    /\ unreported = FALSE
    /\ calls = <<>>
    /\ last = Step("init", 0, FALSE, "none", 0)

CodecIdle ==
    /\ code = <<>>
    /\ value = <<>>
    /\ packet = <<>>
    /\ decoded = NoFrame
    /\ cpc = "off"

Devices == 1..NumDevices

\* one device's OnkyoEISCP before connect(): _connected, the listener task
\* ("none", "run", "done"), the stream (ended, frames waiting), and counts
\* of the frames dispatched and the commands sent
NoConn == [connected |-> FALSE, task |-> "none", eof |-> FALSE, inbox |-> 0,
           got |-> 0, sent |-> 0]

\* OnkyoDevice.__init__: the main and extended state
InitialAttrs ==
    [state |-> "OFF", volume |-> 0, muted |-> FALSE, source |-> <<>>,
     sound_mode |-> <<>>, position |-> 0, duration |-> 0]

NoUpdate == <<>>

NotHandled ==
    [cmd |-> <<>>, value |-> <<>>, prev |-> InitialAttrs, updates |-> NoUpdate,
     raised |-> FALSE]

\* no update() has been called: pc is "idle", "send" (the next query is due),
\* "drain" (in send_command) or "sleep"; k counts the queries gone through,
\* base is the number of packets written when the call began, runs the calls
\* held says that no query so far was refused
NoUpdateCall == [pc |-> "idle", k |-> 0, base |-> 0, runs |-> 0, held |-> TRUE]

\* no discover_receivers() has been called: pc is "idle", "loop" (at the
\* while condition), "recv" (in recvfrom) or "done"; now is the clock, start
\* and since the times the call and the pending recvfrom began, seen the
\* datagrams received, sent the packets broadcast
NoDiscovery ==
    [pc |-> "idle", timeout |-> 0, now |-> 0, start |-> 0, since |-> 0,
     receivers |-> <<>>, seen |-> <<>>, sent |-> <<>>, returned |-> 0]

AuxIdle ==
    /\ conns = [d \in Devices |-> NoConn]
    /\ attrs = InitialAttrs
    /\ handled = NotHandled
    /\ upd = NoUpdateCall
    /\ disc = NoDiscovery

\* an OnkyoDevice as the driver holds it: configured (it is in
\* _configured_avrs), handlers (the driver's listeners are on its events),
\* _active, its connection's _connected, failed (its last connect() failed),
\* connecting (connect() tasks created and not yet run), subscribed (those
\* of its entities that are in api.configured_entities)
NoAvr ==
    [configured |-> FALSE, handlers |-> FALSE, active |-> FALSE, connected |-> FALSE,
     failed |-> FALSE, connecting |-> 0, subscribed |-> {}]

\* receiver_status_poller before its first cycle: pc is "sleep" or "gather";
\* tasks is what became of each update of the cycle ("none", "run", "done",
\* "raised", "cancelled"); err is 1 once a cycle caught an error and 2 once
\* a later cycle began; spared says a poll went on after another one raised
NoPoller ==
    [pc |-> "sleep", tasks |-> [d \in Devices |-> "none"], err |-> 0, spared |-> FALSE]

\* driver.py before main(): standby is _REMOTE_IN_STANDBY; sleeping is
\* "entering" while on_r2_enter_standby runs, "yes" from its end to the next
\* exit-standby, connect or subscribe event; spc is the device that handler
\* disconnects next; polled says the poller sent a query while sleeping
NoDriver ==
    [standby |-> FALSE, sleeping |-> "no", spc |-> 0,
     avr |-> [d \in Devices |-> NoAvr],
     reachable |-> [d \in Devices |-> TRUE],
     poller |-> NoPoller, events |-> 0, faults |-> 0, polled |-> FALSE]

\* config.Devices before load(): mem is _devices, file the configuration
\* file; op, before and result describe the call made last; ops counts them
NoStore ==
    [mem |-> {}, file |-> [exists |-> FALSE, devices |-> {}],
     op |-> "none", before |-> {}, result |-> TRUE, ops |-> 0]

DrvIdle ==
    /\ drv = NoDriver
    /\ store = NoStore

\* _register_callbacks: the device's handlers, none of which raises
DeviceCallbacks == (PWR :> <<"on_power">>) @@ (MVL :> <<"on_volume">>)

\* a constructed OnkyoDevice; the receiver answers with power reports
Init ==
    /\ ConnInit
    /\ callbacks = DeviceCallbacks
    /\ peerData = {build_packet(PWR01)}
    /\ nframes = MaxReplies
    /\ CodecIdle
    /\ AuxIdle
    /\ DrvIdle

\* a bare OnkyoEISCP whose callbacks are still to be registered; the peer
\* sends well-formed and malformed frames
ListenInit ==
    /\ ConnInit
    /\ callbacks = <<>>
    /\ peerData = PeerChunks
    /\ nframes = MaxFrames
    /\ CodecIdle
    /\ AuxIdle
    /\ DrvIdle

(***************************************************************************)
(* register_callback(command, callback)                                    *)
(***************************************************************************)
register_callback(cbs, command, callback) ==
    IF command \notin DOMAIN cbs
    THEN cbs @@ (command :> <<callback>>)
    ELSE [cbs EXCEPT ![command] = Append(@, callback)]

\* OnkyoDevice.__init__ registers the callbacks before any connect()
Register(command, callback) ==
    /\ nsock = 0 /\ lastEvent = "NONE" /\ dpc = "idle"
    /\ TotalRegs < MaxRegs
    /\ callbacks' = register_callback(callbacks, command, callback)
    /\ last' = Other
    /\ UNCHANGED <<connected, reader, writer, listen_task, tasks, sockVars, opVars,
                   devVars, calls, sideVars>>

(***************************************************************************)
(* connect(): OnkyoEISCP.connect inside OnkyoDevice.connect.  The queries  *)
(* of the update() that follows a successful connect are SendCall steps.   *)
(***************************************************************************)
\* an except clause that leaves _connected as it was
connect_failed_keeps_flag(conn) == conn

\* the except clause of connect(): the value of _connected after it
connect_failed(conn) == FALSE

\* a connect() that starts a listener only when it holds no task yet
create_listener_once(old, s) == IF old = 0 THEN s ELSE old

\* self._listen_task = asyncio.create_task(self._listen()): the task that
\* _listen_task names after it, s being the new one
create_listener(old, s) == s

\* open_connection succeeded within the timeout
ConnectOk ==
    /\ nsock < MaxSock
    /\ LET s == nsock + 1 IN
        /\ reader' = s
        /\ writer' = s
        /\ connected' = TRUE
        /\ listen_task' = create_listener(listen_task, s)
        /\ tasks' = IF create_listener(listen_task, s) = s
                    THEN [tasks EXCEPT ![s] = [NoTask EXCEPT !.pc = "new"]]
                    ELSE tasks
        /\ nsock' = s
    /\ active' = TRUE
    /\ lastEvent' = "CONNECTED"
    /\ last' = Step("connect_ok", 0, connected, "true", nsock)
    /\ UNCHANGED <<callbacks, arrived, pos, eof, closed, out, nframes, peerData, opVars,
                   unreported, calls, sideVars>>

\* open_connection raised (refused, unresolved) or wait_for timed out
ConnectFail ==
    /\ connected' = connect_failed(connected)
    /\ lastEvent' = "ERROR"
    /\ unreported' = FALSE
    /\ last' = Step("connect_fail", 0, connected, "false", nsock)
    /\ UNCHANGED <<reader, writer, listen_task, callbacks, tasks, sockVars, opVars,
                   active, calls, sideVars>>

(***************************************************************************)
(* The peer.                                                               *)
(***************************************************************************)
PeerSend(s, chunk) ==
    /\ s <= nsock
    /\ ~eof[s] /\ ~closed[s]
    /\ nframes > 0
    /\ chunk \in peerData
    /\ arrived' = [arrived EXCEPT ![s] = @ \o chunk]
    /\ nframes' = nframes - 1
    /\ last' = Other
    /\ UNCHANGED <<connVars, pos, eof, closed, out, nsock, peerData, opVars, devVars,
                   calls, sideVars>>

PeerClose(s) ==
    /\ s <= nsock
    /\ ~eof[s]
    /\ eof' = [eof EXCEPT ![s] = TRUE]
    /\ last' = Other
    /\ UNCHANGED <<connVars, arrived, pos, closed, out, nsock, nframes, peerData, opVars,
                   devVars, calls, sideVars>>

(***************************************************************************)
(* _listen(): the listener task.  A task at "hdr" is in readexactly(16),   *)
(* a task at "data" in readexactly(data_size), both on the reader that     *)
(* self._reader named when the call was made.                              *)
(***************************************************************************)
\* while self._connected and self._reader: header = await ...readexactly(16)
loop_top(tk, conn, rd) ==
    IF conn /\ rd # 0
    THEN [tk EXCEPT !.pc = "hdr", !.rd = rd, !.size = 0, !.hs = 0, !.ho = 0]
    ELSE [tk EXCEPT !.pc = "done", !.res = "ok"]

\* a bad magic that ends the loop
on_bad_magic_abort(tk, conn, rd) == [tk EXCEPT !.pc = "done", !.res = "ok"]

\* if magic != b"ISCP": continue
on_bad_magic(tk, conn, rd) == loop_top(tk, conn, rd)

\* except clauses that never touch _connected
listen_except_keeps_flag(kind, conn) == [connected |-> conn, res |-> "ok"]

\* the two except clauses of the loop: what they leave in _connected and
\* how the task ends
listen_except(kind, conn) ==
    IF kind = "cancel"
    THEN [connected |-> conn, res |-> "ok"]
    ELSE [connected |-> FALSE, res |-> "ok"]

\* one callback invocation, as logged
Invocation(cb, cmd, val, s, off, n) ==
    [cb |-> cb, cmd |-> cmd, value |-> val, sock |-> s, off |-> off, len |-> n,
     raised |-> cb \in Raising]

\* a dispatch that walks the listener list backwards
dispatch_reversed(cbs, cmd, val, s, off, n) ==
    [log |-> [i \in 1..Len(cbs) |->
                Invocation(cbs[Len(cbs) + 1 - i], cmd, val, s, off, n)],
     escaped |-> FALSE]

\* a dispatch without the try/except around each callback
dispatch_uncaught(cbs, cmd, val, s, off, n) ==
    LET bad == {i \in 1..Len(cbs) : cbs[i] \in Raising}
        stop == IF bad = {} THEN Len(cbs)
                ELSE CHOOSE i \in bad : \A j \in bad : i <= j
    IN [log |-> [i \in 1..stop |-> Invocation(cbs[i], cmd, val, s, off, n)],
        escaped |-> bad # {}]

\* for callback in self._callbacks[cmd]: try: callback(cmd, value) except Exception
\* (log: the invocations made; escaped: an exception left the loop)
dispatch(cbs, cmd, val, s, off, n) ==
    [log |-> [i \in 1..Len(cbs) |-> Invocation(cbs[i], cmd, val, s, off, n)],
     escaped |-> FALSE]

\* a payload read that leaves the bytes in the stream
payload_left(p, size) == p

\* readexactly(data_size): where the stream stands after the payload read
payload_end(p, size) == p + size

\* what became of the payload: "error" (not UTF-8), "short" (fewer than 3
\* characters left), "nocb" (no callback for the code), "called"
Outcome(data, cbs) ==
    IF ~Utf8Valid(data) THEN "error"
    ELSE IF ~decode_payload(data).ok THEN "short"
    ELSE IF decode_payload(data).cmd \notin DOMAIN cbs THEN "nocb"
    ELSE "called"

\* the task's first step
ListenStart(t) ==
    /\ tasks[t].pc = "new"
    /\ IF tasks[t].cancel
       THEN /\ tasks' = [tasks EXCEPT ![t] = [@ EXCEPT !.pc = "done", !.res = "cancelled"]]
            /\ last' = Step("listen_cancel", t, connected, "none", Len(calls))
       ELSE /\ tasks' = [tasks EXCEPT ![t] = loop_top(@, connected, reader)]
            /\ last' = Other
    /\ UNCHANGED <<connected, reader, writer, listen_task, callbacks, sockVars, opVars,
                   devVars, calls, sideVars>>

\* readexactly(16) returns
ListenHeader(t) ==
    LET tk == tasks[t] IN
    /\ tk.pc = "hdr" /\ ~tk.cancel
    /\ Avail(tk.rd) >= HeaderLen
    /\ LET h == unpack_header(Take(tk.rd, HeaderLen)) IN
        /\ pos' = [pos EXCEPT ![tk.rd] = @ + HeaderLen]
        /\ IF h.magic # MAGIC
           THEN /\ tasks' = [tasks EXCEPT ![t] = on_bad_magic(tk, connected, reader)]
                /\ last' = Step("bad_magic", t, connected, "none", Len(calls))
           ELSE /\ tasks' = [tasks EXCEPT ![t] =
                                [tk EXCEPT !.pc = "data", !.rd = reader,
                                           !.size = h.data_size,
                                           !.hs = tk.rd, !.ho = pos[tk.rd]]]
                /\ last' = Other
    /\ UNCHANGED <<connected, reader, writer, listen_task, callbacks, arrived, eof,
                   closed, out, nsock, nframes, peerData, opVars, devVars, calls, sideVars>>

\* readexactly(data_size) returns: decode, dispatch, next iteration
ListenData(t) ==
    LET tk == tasks[t]
        data == Take(tk.rd, tk.size)
        m == IF Utf8Valid(data) THEN decode_payload(data) ELSE NoFrame
        d == IF m.ok /\ m.cmd \in DOMAIN callbacks
             THEN dispatch(callbacks[m.cmd], m.cmd, m.value, tk.rd, pos[tk.rd], tk.size)
             ELSE [log |-> <<>>, escaped |-> FALSE]
        ex == listen_except("error", connected)
        \* the frame whose header stands right before this payload, if there is one
        whole == tk.hs = tk.rd /\ pos[tk.rd] = tk.ho + HeaderLen
        frame == IF whole THEN <<tk.rd, tk.ho + HeaderLen + tk.size>> ELSE <<0, 0>>
    IN
    /\ tk.pc = "data" /\ ~tk.cancel
    /\ Avail(tk.rd) >= tk.size
    /\ pos' = [pos EXCEPT ![tk.rd] = payload_end(@, tk.size)]
    /\ calls' = calls \o d.log
    /\ IF ~Utf8Valid(data) \/ d.escaped
       THEN /\ connected' = ex.connected
            /\ unreported' = (unreported \/ (connected /\ ~ex.connected))
            /\ tasks' = [tasks EXCEPT ![t] = [tk EXCEPT !.pc = "done", !.res = ex.res]]
            /\ last' = StepArg(IF Utf8Valid(data) THEN "dispatch" ELSE "listen_error",
                               t, connected, Outcome(data, callbacks), Len(calls), frame)
       ELSE /\ UNCHANGED <<connected, unreported>>
            /\ tasks' = [tasks EXCEPT ![t] = loop_top(tk, connected, reader)]
            /\ last' = StepArg("dispatch", t, connected, Outcome(data, callbacks),
                               Len(calls), frame)
    /\ UNCHANGED <<reader, writer, listen_task, callbacks, arrived, eof, closed, out,
                   nsock, nframes, peerData, opVars, active, lastEvent, sideVars>>

\* readexactly raises: the stream ended before the bytes asked for arrived
ListenReadError(t) ==
    LET tk == tasks[t]
        need == IF tk.pc = "hdr" THEN HeaderLen ELSE tk.size
        ex == listen_except("error", connected)
    IN
    /\ tk.pc \in {"hdr", "data"} /\ ~tk.cancel
    /\ Avail(tk.rd) < need
    /\ eof[tk.rd] \/ closed[tk.rd]
    /\ connected' = ex.connected
    /\ unreported' = (unreported \/ (connected /\ ~ex.connected))
    /\ tasks' = [tasks EXCEPT ![t] = [tk EXCEPT !.pc = "done", !.res = ex.res]]
    /\ last' = Step("listen_error", t, connected, "none", Len(calls))
    /\ UNCHANGED <<reader, writer, listen_task, callbacks, sockVars, opVars, active,
                   lastEvent, calls, sideVars>>

\* the pending read raises CancelledError
ListenCancelled(t) ==
    LET tk == tasks[t]
        ex == listen_except("cancel", connected)
    IN
    /\ tk.pc \in {"hdr", "data"} /\ tk.cancel
    /\ connected' = ex.connected
    /\ tasks' = [tasks EXCEPT ![t] = [tk EXCEPT !.pc = "done", !.res = ex.res]]
    /\ last' = Step("listen_cancel", t, connected, "none", Len(calls))
    /\ UNCHANGED <<reader, writer, listen_task, callbacks, sockVars, opVars, devVars,
                   calls, sideVars>>

(***************************************************************************)
(* disconnect(): OnkyoEISCP.disconnect inside OnkyoDevice.disconnect.      *)
(***************************************************************************)
\* task.cancel(): a finished task is left alone
cancel_task(tk) == IF tk.pc = "done" THEN tk ELSE [tk EXCEPT !.cancel = TRUE]

\* self._active = False; if self._listen_task: cancel, await
DisconnectCall ==
    /\ dpc = "idle"
    /\ active' = FALSE
    /\ IF listen_task # 0
       THEN /\ tasks' = [tasks EXCEPT ![listen_task] = cancel_task(@)]
            /\ dpc' = "await_task"
            /\ dtask' = listen_task
            /\ last' = Other
            /\ UNCHANGED <<connected, closed, lastEvent, unreported>>
       ELSE IF writer # 0
       THEN /\ closed' = [closed EXCEPT ![writer] = TRUE]
            /\ dpc' = "await_closed"
            /\ last' = Other
            /\ UNCHANGED <<connected, tasks, dtask, lastEvent, unreported>>
       ELSE /\ connected' = FALSE
            /\ lastEvent' = "DISCONNECTED"
            /\ unreported' = FALSE
            /\ last' = Step("disconnect_return", 0, connected, "none", 0)
            /\ UNCHANGED <<tasks, closed, dpc, dtask>>
    /\ UNCHANGED <<reader, writer, listen_task, callbacks, arrived, pos, eof, out,
                   nsock, nframes, peerData, sending, calls, sideVars>>

\* await self._listen_task returns; if self._writer: close, wait_closed
DisconnectTaskDone ==
    /\ dpc = "await_task"
    /\ tasks[dtask].pc = "done"
    /\ dtask' = 0
    /\ IF tasks[dtask].res = "exc"
       THEN /\ dpc' = "idle"
            /\ last' = Step("disconnect_return", 0, connected, "raise", 0)
            /\ UNCHANGED <<connected, closed, lastEvent, unreported>>
       ELSE IF writer # 0
       THEN /\ closed' = [closed EXCEPT ![writer] = TRUE]
            /\ dpc' = "await_closed"
            /\ last' = Other
            /\ UNCHANGED <<connected, lastEvent, unreported>>
       ELSE /\ connected' = FALSE
            /\ dpc' = "idle"
            /\ lastEvent' = "DISCONNECTED"
            /\ unreported' = FALSE
            /\ last' = Step("disconnect_return", 0, connected, "none", 0)
            /\ UNCHANGED closed
    /\ UNCHANGED <<reader, writer, listen_task, callbacks, tasks, arrived, pos, eof,
                   out, nsock, nframes, peerData, sending, active, calls, sideVars>>

\* wait_closed() returns; self._connected = False; emit DISCONNECTED
DisconnectClosed ==
    /\ dpc = "await_closed"
    /\ connected' = FALSE
    /\ dpc' = "idle"
    /\ lastEvent' = "DISCONNECTED"
    /\ unreported' = FALSE
    /\ last' = Step("disconnect_return", 0, connected, "none", 0)
    /\ UNCHANGED <<reader, writer, listen_task, callbacks, tasks, sockVars, dtask,
                   sending, active, calls, sideVars>>

(***************************************************************************)
(* send_command(command, value)                                            *)
(***************************************************************************)
\* a guard that refuses only when both are missing
send_refused_both(conn, wr) == ~conn /\ wr = 0

\* if not self._connected or not self._writer: return False
send_refused(conn, wr) == ~conn \/ wr = 0

\* an except clause that leaves _connected as it was
send_failed_keeps_flag(conn) == conn

\* the except clause of send_command: the value of _connected after it
send_failed(conn) == FALSE

\* send_command(command, value) up to its first await: the guard, then
\* _build_packet and writer.write; op and arg say who called, limit bounds
\* the packets written, refused is what the caller's step records when
\* send_command returns False at once
send_command_as(limit, command, val, op, arg, refused) ==
    /\ sending = 0
    /\ IF send_refused(connected, writer)
       THEN /\ last' = StepArg(op, 0, connected, refused, TotalOut, arg)
            /\ UNCHANGED <<out, sending>>
       ELSE /\ TotalOut < limit
            /\ out' = [out EXCEPT ![writer] =
                          IF closed[writer] THEN @
                          ELSE Append(@, build_packet(command \o val))]
            /\ sending' = writer
            /\ last' = StepArg(op, 0, connected, "pending", TotalOut, arg)
    /\ UNCHANGED <<connVars, arrived, pos, eof, closed, nsock, nframes, peerData, dpc, dtask,
                   devVars, calls, codecVars, drvVars, conns, attrs, handled, disc>>

\* send_command as its own step: a refusal is recorded as "false"
send_command_io(limit, command, val, op, arg) ==
    send_command_as(limit, command, val, op, arg, "false")

\* send_command called by anything but update()
send_command(command, val, op, arg) ==
    /\ send_command_io(MaxSends, command, val, op, arg)
    /\ UNCHANGED upd

SendCall(command, val) == send_command(command, val, "send_call", <<0, 0>>)

\* drain() returns and send_command returns True; op, ret and arg are what
\* the caller's step records
drain_returns(op, ret, arg) ==
    /\ sending # 0
    /\ ~closed[sending]
    /\ sending' = 0
    /\ last' = StepArg(op, 0, connected, ret, TotalOut, arg)
    /\ UNCHANGED <<connVars, sockVars, dpc, dtask, devVars, calls, sideVars>>

\* drain() returns
SendDrainOk == drain_returns("send_return", "true", <<0, 0>>)

\* drain() raises, the connection is lost and send_command returns False
drain_raises(op, ret, arg) ==
    /\ sending # 0
    /\ eof[sending] \/ closed[sending]
    /\ sending' = 0
    /\ connected' = send_failed(connected)
    /\ unreported' = (unreported \/ (connected /\ ~send_failed(connected)))
    /\ last' = StepArg(op, 0, connected, ret, TotalOut, arg)
    /\ UNCHANGED <<reader, writer, listen_task, callbacks, tasks, sockVars, dpc, dtask,
                   active, lastEvent, calls, sideVars>>

\* drain() raises: the connection is lost
SendDrainFail == drain_raises("send_fail", "false", <<0, 0>>)

(***************************************************************************)
(* The connection and its device.                                          *)
(***************************************************************************)
Next ==
    \/ ConnectOk
    \/ ConnectFail
    \/ \E s \in Socks, chunk \in PeerChunks : PeerSend(s, chunk)
    \/ \E s \in Socks : PeerClose(s)
    \/ \E t \in Socks : ListenStart(t)
    \/ \E t \in Socks : ListenHeader(t)
    \/ \E t \in Socks : ListenData(t)
    \/ \E t \in Socks : ListenReadError(t)
    \/ \E t \in Socks : ListenCancelled(t)
    \/ DisconnectCall
    \/ DisconnectTaskDone
    \/ DisconnectClosed
    \/ \E c \in SendCommands : SendCall(c[1], c[2])
    \/ SendDrainOk
    \/ SendDrainFail

Spec == Init /\ [][Next]_vars

(***************************************************************************)
(* The listener on its own: registration, connects, inbound frames.        *)
(***************************************************************************)
ListenNext ==
    \/ \E c \in RegCodes, f \in Callback : Register(c, f)
    \/ ConnectOk
    \/ \E s \in Socks, chunk \in PeerChunks : PeerSend(s, chunk)
    \/ \E s \in Socks : PeerClose(s)
    \/ \E t \in Socks : ListenStart(t)
    \/ \E t \in Socks : ListenHeader(t)
    \/ \E t \in Socks : ListenData(t)
    \/ \E t \in Socks : ListenReadError(t)

SpecListen == ListenInit /\ [][ListenNext]_vars


(***************************************************************************)
(* The codec on its own: one (code, value) pair is encoded by              *)
(* _build_packet and the bytes are decoded by the listener's decode path.  *)
(***************************************************************************)
CodecInit ==
    /\ ConnInit
    /\ callbacks = <<>>
    /\ peerData = {}
    /\ nframes = 0
    /\ code \in Codes3
    /\ value \in Values
    /\ packet = <<>>
    /\ decoded = NoFrame
    /\ cpc = "input"
    /\ AuxIdle
    /\ DrvIdle

\* b"!xECNQSTN\r\n"
discover_msg == <<33, 120, 69, 67, 78, 81, 83, 84, 78, 13, 10>>

\* a discovery query whose length field leaves out the line end
discover_packet_bare_len ==
    MAGIC \o PackU32(HeaderLen) \o PackU32(Len(discover_msg) - 2) \o <<1, 0, 0, 0>>
        \o discover_msg

\* discover_receivers: packet = header + discover_msg
discover_packet ==
    MAGIC \o PackU32(HeaderLen) \o PackU32(Len(discover_msg)) \o <<1, 0, 0, 0>>
        \o discover_msg

\* send_command: full_command = f"{command}{value}"; _build_packet(full_command)
Encode ==
    /\ cpc = "input"
    /\ packet' = build_packet(code \o value)
    /\ cpc' = "encoded"
    /\ UNCHANGED <<connVars, sockVars, opVars, devVars, calls, last, code, value, decoded,
                 auxVars, drvVars>>

\* _listen on exactly these bytes
Decode ==
    /\ cpc = "encoded"
    /\ decoded' = decode_packet(packet)
    /\ cpc' = "decoded"
    /\ UNCHANGED <<connVars, sockVars, opVars, devVars, calls, last, code, value, packet,
                 auxVars, drvVars>>

\* discover_receivers: sock.sendto(packet, ("<broadcast>", DISCOVERY_PORT))
Discover ==
    /\ cpc = "input"
    /\ packet' = discover_packet
    /\ cpc' = "query"
    /\ UNCHANGED <<connVars, sockVars, opVars, devVars, calls, last, code, value, decoded,
                 auxVars, drvVars>>

CodecNext == Encode \/ Decode \/ Discover

SpecCodec == CodecInit /\ [][CodecNext]_vars

(***************************************************************************)
(* Properties.                                                             *)
(***************************************************************************)
RoundTrips == decoded = [ok |-> TRUE, cmd |-> code, value |-> value]

Running(t) == tasks[t].pc \in {"new", "hdr", "data"}

\* the invocations the last step added
NewCalls == SubSeq(calls, last.n + 1, Len(calls))

\* the listener of the last step is where a loop that goes on is
GoesOn(t, conn) ==
    /\ tasks[t].res # "exc"
    /\ tasks[t].pc = (IF conn THEN "hdr" ELSE "done")

C4_FailureReported == ~unreported

\* C5: a disconnect() that returns has raised nothing, leaves the state
\* Disconnected, and leaves no listener task of the connection running.
C5_DisconnectQuiet ==
    last.op = "disconnect_return" =>
        /\ last.ret # "raise"
        /\ ~connected
        /\ \A t \in Socks : ~Running(t)

\* C6: send_command on a connection that is not Connected (or has no writer)
\* returns False, raises nothing and hands no byte to any socket.
C6_SendRefused ==
    (last.op = "send_call" /\ (~last.pre \/ writer = 0)) =>
        /\ last.ret = "false"
        /\ TotalOut = last.n
        /\ sending = 0

\* send_command was refused on a connection that disconnect() had closed
C6_Witness ==
    /\ last.op = "send_call" /\ ~last.pre /\ last.ret = "false"
    /\ writer # 0 /\ closed[writer] /\ lastEvent = "DISCONNECTED"

\* C7: when the write or drain of send_command fails, send_command returns
\* False, the state becomes Disconnected, and nothing is written again.
C7_SendFailure ==
    last.op = "send_fail" =>
        /\ last.ret = "false"
        /\ ~connected
        /\ sending = 0
        /\ TotalOut = last.n

\* a drain failed on a Connected connection
C7_Witness == last.op = "send_fail" /\ last.pre /\ ~connected /\ TotalOut = 1

\* C8: a connect() that fails returns False, starts no listener task and
\* leaves the state Disconnected.
C8_ConnectFailure ==
    last.op = "connect_fail" =>
        /\ last.ret = "false"
        /\ ~connected
        /\ nsock = last.n
        /\ \A t \in Socks : t > last.n => tasks[t] = NoTask

\* a connect() failed on a connection that was Connected
C8_Witness == last.op = "connect_fail" /\ last.pre /\ ~connected /\ nsock = 1

\* the frame an invocation belongs to: the socket and offset of its payload
FrameOf(e) == <<e.sock, e.off>>

\* the payload bytes an invocation was made for
WireOf(e) == SubSeq(arrived[e.sock], e.off + 1, e.off + e.len)

\* index i opens the invocations of a frame
Opens(i) == i = 1 \/ FrameOf(calls[i - 1]) # FrameOf(calls[i])

C11_BadUtf8Survived ==
    (last.op = "listen_error" /\ last.ret = "error" /\ last.pre) =>
        /\ connected
        /\ tasks[last.t].pc = "hdr"

C13_HeaderInvariant ==
    cpc \in {"encoded", "decoded", "query"} =>
        /\ Len(packet) >= HeaderLen
        /\ LET h == unpack_header(SubSeq(packet, 1, HeaderLen)) IN
              /\ h.magic = MAGIC
              /\ h.header_size = HeaderLen
              /\ h.version = 1
              /\ SubSeq(packet, 14, 16) = <<0, 0, 0>>
              /\ h.data_size = Len(packet) - HeaderLen

\* the discovery query was emitted: 16 header bytes and the 11 of "!xECNQSTN\r\n"
C13_Witness ==
    /\ cpc = "query"
    /\ Len(packet) = 27
    /\ SubSeq(packet, 17, 27) = discover_msg
    /\ UnpackU32(SubSeq(packet, 9, 12)) = 11

(***************************************************************************)
(* Several devices, each an OnkyoDevice with an OnkyoEISCP of its own.     *)
(* A connection is reduced to its flag, its listener and its stream.       *)
(***************************************************************************)
\* a failure that clears the flag of every connection
fail_scope_shared(d) == Devices

\* self._connected = False in an except clause: the connections it touches
fail_scope(d) == {d}

\* the except clause of connection d has run
Failed(c, d, conn) ==
    [e \in Devices |->
        IF e \in fail_scope(d) THEN [c[e] EXCEPT !.connected = conn] ELSE c[e]]

TwoOthers ==
    <<connVars, sockVars, opVars, devVars, calls, codecVars, drvVars, attrs, handled, upd, disc>>

\* connect() of device d succeeds
TwoConnect(d) ==
    /\ conns[d].task = "none"
    /\ conns' = [conns EXCEPT ![d] = [@ EXCEPT !.connected = TRUE, !.task = "run"]]
    /\ last' = Other
    /\ UNCHANGED TwoOthers

\* the receiver of device d sends a frame for which a callback is registered
TwoPeerSend(d) ==
    /\ conns[d].task # "none" /\ ~conns[d].eof
    /\ conns[d].inbox + conns[d].got < MaxInbound
    /\ conns' = [conns EXCEPT ![d] = [@ EXCEPT !.inbox = @ + 1]]
    /\ last' = Other
    /\ UNCHANGED TwoOthers

\* the connection of device d drops
TwoDrop(d) ==
    /\ conns[d].task # "none" /\ ~conns[d].eof
    /\ conns' = [conns EXCEPT ![d] = [@ EXCEPT !.eof = TRUE]]
    /\ last' = Other
    /\ UNCHANGED TwoOthers

\* the listener of device d reads a frame and dispatches it
TwoListen(d) ==
    /\ conns[d].task = "run" /\ conns[d].inbox > 0
    /\ conns' = [conns EXCEPT ![d] =
                    [@ EXCEPT !.inbox = @ - 1, !.got = @ + 1,
                              !.task = IF conns[d].connected THEN "run" ELSE "done"]]
    /\ last' = Step("two_dispatch", d, conns[d].connected, "none", conns[d].got)
    /\ UNCHANGED TwoOthers

\* the listener of device d reads from the ended stream
TwoReadError(d) ==
    /\ conns[d].task = "run" /\ conns[d].inbox = 0 /\ conns[d].eof
    /\ conns' = [Failed(conns, d, listen_except("error", conns[d].connected).connected)
                    EXCEPT ![d].task = "done"]
    /\ last' = Step("two_read_error", d, conns[d].connected, "none", 0)
    /\ UNCHANGED TwoOthers

\* send_command on device d, up to its return
TwoSend(d) ==
    LET c == conns[d] IN
    /\ c.sent < MaxSends
    /\ IF send_refused(c.connected, IF c.task = "none" THEN 0 ELSE d)
       THEN /\ last' = Step("two_send", d, c.connected, "false", c.sent)
            /\ UNCHANGED conns
       ELSE IF c.eof
       THEN /\ conns' = Failed(conns, d, send_failed(c.connected))
            /\ last' = Step("two_send", d, c.connected, "false", c.sent)
       ELSE /\ conns' = [conns EXCEPT ![d] = [@ EXCEPT !.sent = @ + 1]]
            /\ last' = Step("two_send", d, c.connected, "true", c.sent)
    /\ UNCHANGED TwoOthers

TwoInit ==
    /\ ConnInit
    /\ callbacks = DeviceCallbacks
    /\ peerData = {}
    /\ nframes = 0
    /\ CodecIdle
    /\ AuxIdle
    /\ DrvIdle

TwoNext ==
    \E d \in Devices :
        \/ TwoConnect(d)
        \/ TwoPeerSend(d)
        \/ TwoDrop(d)
        \/ TwoListen(d)
        \/ TwoReadError(d)
        \/ TwoSend(d)

SpecTwo == TwoInit /\ [][TwoNext]_vars

\* the connection of device d has not dropped
Intact(d) == conns[d].task # "none" /\ ~conns[d].eof

Range(s) == {s[i] : i \in DOMAIN s}

\* str.upper() on ASCII text
Upper(s) == [i \in DOMAIN s |-> IF s[i] >= 97 /\ s[i] <= 122 THEN s[i] - 32 ELSE s[i]]

\* the value of a character as a digit, -1 if it is none
DigitVal(c) ==
    IF c >= 48 /\ c <= 57 THEN c - 48
    ELSE IF c >= 65 /\ c <= 90 THEN c - 55
    ELSE IF c >= 97 /\ c <= 122 THEN c - 87
    ELSE -1

RECURSIVE DigitsValue(_, _, _)
DigitsValue(body, base, acc) ==
    IF body = <<>> THEN acc
    ELSE IF Head(body) = 95 THEN DigitsValue(Tail(body), base, acc)
    ELSE DigitsValue(Tail(body), base, acc * base + DigitVal(Head(body)))

\* the digits of int(s, base), single underscores between them allowed; ok is
\* FALSE for ValueError
ParseDigits(body, base, prefixed, negative) ==
    LET ok == /\ body # <<>>
              /\ body[Len(body)] # 95
              /\ (body[1] # 95 \/ prefixed)
              /\ \A i \in 1..(Len(body) - 1) : ~(body[i] = 95 /\ body[i + 1] = 95)
              /\ \A i \in DOMAIN body :
                    body[i] = 95 \/ (DigitVal(body[i]) >= 0 /\ DigitVal(body[i]) < base)
    IN [ok |-> ok,
        val |-> IF ~ok THEN 0
                ELSE IF negative THEN 0 - DigitsValue(body, base, 0)
                ELSE DigitsValue(body, base, 0)]

\* for base 16 a 0x prefix may precede the digits
ParseUnsigned(rest, base, negative) ==
    IF base = 16 /\ Len(rest) >= 2 /\ rest[1] = 48 /\ rest[2] \in {88, 120}
    THEN ParseDigits(SubSeq(rest, 3, Len(rest)), base, TRUE, negative)
    ELSE ParseDigits(rest, base, FALSE, negative)

\* a sign may precede the number
ParseSigned(t, base) ==
    IF t # <<>> /\ t[1] \in {43, 45}
    THEN ParseUnsigned(Tail(t), base, t[1] = 45)
    ELSE ParseUnsigned(t, base, FALSE)

\* int(s, base): surrounding whitespace is stripped first
ParseInt(s, base) == ParseSigned(Strip(s), base)

\* str.split(sep) for a one-character separator
RECURSIVE Split(_, _)
Split(s, sep) ==
    IF sep \notin Range(s) THEN <<s>>
    ELSE LET i == CHOOSE k \in DOMAIN s : s[k] = sep /\ \A j \in 1..(k - 1) : s[j] # sep
         IN <<SubSeq(s, 1, i - 1)>> \o Split(SubSeq(s, i + 1, Len(s)), sep)

(***************************************************************************)
(* OnkyoDevice: the callback handlers of the device state machine.  A      *)
(* handler gives the attributes after it, the updates it emitted and       *)
(* whether an exception left it.                                           *)
(***************************************************************************)
AMT == <<65, 77, 84>>                             \* CMD_MUTE "AMT"
SLI == <<83, 76, 73>>                             \* CMD_INPUT "SLI"
LMD == <<76, 77, 68>>                             \* CMD_LISTENING_MODE "LMD"
NTM == <<78, 84, 77>>                             \* CMD_NET_USB_TIME "NTM"
NST == <<78, 83, 84>>                             \* CMD_NET_USB_STATUS "NST"

\* INPUT_SOURCES, six of its entries: "01", "20", "22", "23", "26", "2A"
INPUT_SOURCES ==
    (<<48, 49>> :> <<67, 66, 76, 47, 83, 65, 84>>)
        @@ (<<50, 48>> :> <<80, 72, 79, 78, 79>>)
        @@ (<<50, 50>> :> <<84, 85, 78, 69, 82>>)
        @@ (<<50, 51>> :> <<67, 68>>)
        @@ (<<50, 54>> :> <<84, 85, 78, 69, 82>>)
        @@ (<<50, 65>> :> <<85, 83, 66, 32, 82, 69, 65, 82>>)

\* LISTENING_MODES, two of its entries: "00", "0A"
LISTENING_MODES ==
    (<<48, 48>> :> <<83, 84, 69, 82, 69, 79>>)
        @@ (<<48, 65>> :> <<83, 84, 85, 68, 73, 79, 45, 77, 73, 88>>)

Handled(a, updates) == [attrs |-> a, updates |-> updates, raised |-> FALSE]

\* a power handler that takes every value but "00" for on
on_power_update_lax(a, v) ==
    IF v = <<48, 48>>
    THEN Handled([a EXCEPT !.state = "OFF"], <<[state |-> "OFF"]>>)
    ELSE Handled([a EXCEPT !.state = "ON"], <<[state |-> "ON"]>>)

\* _on_power_update
on_power_update(a, v) ==
    IF v = <<48, 48>>
    THEN Handled([a EXCEPT !.state = "OFF"], <<[state |-> "OFF"]>>)
    ELSE IF v = <<48, 49>>
    THEN Handled([a EXCEPT !.state = "ON"], <<[state |-> "ON"]>>)
    ELSE Handled(a, NoUpdate)

\* "UP", "DOWN", "UP1", "DOWN1"
RelativeTokens == {<<85, 80>>, <<68, 79, 87, 78>>, <<85, 80, 49>>, <<68, 79, 87, 78, 49>>}

\* _on_volume_update
on_volume_update(a, v) ==
    IF Upper(v) \in RelativeTokens THEN Handled(a, NoUpdate)
    ELSE LET vol_int == ParseInt(v, 16) IN
         IF vol_int.ok
         THEN Handled([a EXCEPT !.volume = vol_int.val], <<[volume |-> vol_int.val]>>)
         ELSE Handled(a, NoUpdate)

\* _on_mute_update
on_mute_update(a, v) ==
    IF v = <<48, 48>>
    THEN Handled([a EXCEPT !.muted = FALSE], <<[muted |-> FALSE]>>)
    ELSE IF v = <<48, 49>>
    THEN Handled([a EXCEPT !.muted = TRUE], <<[muted |-> TRUE]>>)
    ELSE Handled(a, NoUpdate)

\* dict.get(key) followed by the fallback label
label_for(registry, key, fallback, v) ==
    IF key \in DOMAIN registry /\ registry[key] # <<>> THEN registry[key]
    ELSE fallback \o v

\* an input handler that looks the value up as it came
on_input_update_as_is(a, v) ==
    LET source_name == label_for(INPUT_SOURCES, v, <<73, 78, 80, 85, 84, 32>>, v)
    IN Handled([a EXCEPT !.source = source_name], <<[source |-> source_name]>>)

\* _on_input_update
on_input_update(a, v) ==
    LET source_name == label_for(INPUT_SOURCES, Upper(v), <<73, 78, 80, 85, 84, 32>>, v)
    IN Handled([a EXCEPT !.source = source_name], <<[source |-> source_name]>>)

\* _on_listening_mode_update
on_listening_mode_update(a, v) ==
    LET mode_name == label_for(LISTENING_MODES, Upper(v), <<77, 79, 68, 69, 32>>, v)
    IN Handled([a EXCEPT !.sound_mode = mode_name], <<[sound_mode |-> mode_name]>>)

\* int(m) * 60 + int(s): ok is FALSE when one of them raises
clock_value(m, sec) ==
    IF ~(m.ok /\ sec.ok) THEN [ok |-> FALSE, val |-> 0]
    ELSE [ok |-> TRUE, val |-> m.val * 60 + sec.val]

\* m, s = ...: unpacking anything but two parts raises
clock_of(ms) ==
    IF Len(ms) # 2 THEN [ok |-> FALSE, val |-> 0]
    ELSE clock_value(ParseInt(ms[1], 10), ParseInt(ms[2], 10))

\* m, s = half.split(":"); int(m) * 60 + int(s)
parse_clock(half) == clock_of(Split(half, 58))

\* the body of _on_time_update after current, total = parts: an exception
\* ends the handler where it is raised, with what was assigned before it
time_update(a, current, total, cur, tot) ==
    LET a1 == IF 58 \in Range(current) THEN [a EXCEPT !.position = cur.val] ELSE a
        a2 == IF 58 \in Range(total) THEN [a1 EXCEPT !.duration = tot.val] ELSE a1
    IN IF 58 \in Range(current) /\ ~cur.ok THEN Handled(a, NoUpdate)
       ELSE IF 58 \in Range(total) /\ ~tot.ok THEN Handled(a1, NoUpdate)
       ELSE Handled(a2, <<[position |-> a2.position, duration |-> a2.duration]>>)

\* if len(parts) == 2
time_parts(a, parts) ==
    IF Len(parts) # 2 THEN Handled(a, NoUpdate)
    ELSE time_update(a, parts[1], parts[2], parse_clock(parts[1]), parse_clock(parts[2]))

\* _on_time_update
on_time_update(a, v) ==
    IF 47 \notin Range(v) THEN Handled(a, NoUpdate)
    ELSE time_parts(a, Split(v, 47))

\* _on_playback_status
on_playback_status(a, v) ==
    IF Len(v) >= 1
    THEN LET play_status == v[1]
             a1 == IF play_status = 80 THEN [a EXCEPT !.state = "PLAYING"]
                   ELSE IF play_status = 112 THEN [a EXCEPT !.state = "PAUSED"]
                   ELSE IF play_status = 83 THEN [a EXCEPT !.state = "ON"]
                   ELSE a
         IN Handled(a1, <<[state |-> a1.state]>>)
    ELSE Handled(a, NoUpdate)

\* the handler _register_callbacks registered for a code
handler(cmd, a, v) ==
    IF cmd = PWR THEN on_power_update(a, v)
    ELSE IF cmd = MVL THEN on_volume_update(a, v)
    ELSE IF cmd = AMT THEN on_mute_update(a, v)
    ELSE IF cmd = SLI THEN on_input_update(a, v)
    ELSE IF cmd = LMD THEN on_listening_mode_update(a, v)
    ELSE IF cmd = NTM THEN on_time_update(a, v)
    ELSE on_playback_status(a, v)

\* the values the receiver reports, per code
InboundValues ==
    (PWR :> {<<48, 48>>, <<48, 49>>, <<48, 53>>, <<78, 47, 65>>})
        @@ (MVL :> {<<50, 56>>, <<53, 48>>, <<54, 52>>, <<85, 80>>, <<78, 47, 65>>})
        @@ (AMT :> {<<48, 48>>, <<48, 49>>, <<84, 71>>})
        @@ (SLI :> {<<48, 49>>, <<50, 97>>, <<90, 90>>})
        @@ (LMD :> {<<48, 48>>, <<122, 122>>})
        @@ (NTM :> {<<48, 49, 58, 51, 48, 47, 48, 52, 58, 49, 53>>, <<103, 97, 114, 98, 97, 103, 101>>, <<48, 49, 58, 51, 48, 47, 45, 45, 58, 45, 45>>, <<48, 49, 51, 48, 47, 48, 52, 49, 53>>, <<49, 58, 50, 47, 51, 58, 52, 47, 53>>})
        @@ (NST :> {<<80, 45, 45>>, <<112, 45, 45>>, <<83, 45, 45>>, <<70, 45, 45>>, <<>>})

\* the listener calls the handler of an inbound frame
Handle(cmd, v) ==
    LET h == handler(cmd, attrs, v) IN
    /\ attrs' = h.attrs
    /\ handled' = [cmd |-> cmd, value |-> v, prev |-> attrs, updates |-> h.updates,
                   raised |-> h.raised]
    /\ UNCHANGED <<connVars, sockVars, opVars, devVars, calls, last, codecVars, drvVars, conns, upd,
                   disc>>

DeviceInit ==
    /\ ConnInit
    /\ callbacks = DeviceCallbacks
    /\ peerData = {}
    /\ nframes = 0
    /\ CodecIdle
    /\ AuxIdle
    /\ DrvIdle

DeviceNext == \E cmd \in DOMAIN InboundValues : \E v \in InboundValues[cmd] : Handle(cmd, v)

SpecDevice == DeviceInit /\ [][DeviceNext]_vars

\* a frame has been handled
Handling(cmd) == handled.cmd = cmd

\* every field of an update has the value the attribute has now
Carries(u, a) == \A f \in DOMAIN u : u[f] = a[f]

Digits(s) == s # <<>> /\ \A i \in DOMAIN s : s[i] >= 48 /\ s[i] <= 57

\* a value of the form mm:ss/mm:ss
WellFormedTime(v) ==
    LET parts == Split(v, 47) IN
    /\ Len(parts) = 2
    /\ \A i \in 1..2 :
          LET ms == Split(parts[i], 58) IN
          Len(ms) = 2 /\ Digits(ms[1]) /\ Digits(ms[2])

\* the frames the state machine is to ignore: unknown power or mute value,
\* relative-volume token, non-hex volume, malformed time value, play status
\* whose first character is none of P, p, S
Ignored(cmd, v) ==
    \/ cmd \in {PWR, AMT} /\ v \notin {<<48, 48>>, <<48, 49>>}
    \/ cmd = MVL /\ (Upper(v) \in RelativeTokens \/ ~ParseInt(v, 16).ok)
    \/ cmd = NTM /\ ~WellFormedTime(v)
    \/ cmd = NST /\ Len(v) >= 1 /\ v[1] \notin {80, 112, 83}

\* C15: a frame that changes an attribute emits exactly one update carrying
\* the new value; an unrecognised or ignored frame emits no update and
\* changes no state.
C15_OneUpdatePerChange ==
    handled.cmd # <<>> =>
        /\ attrs # handled.prev =>
              Len(handled.updates) = 1 /\ Carries(handled.updates[1], attrs)
        /\ Ignored(handled.cmd, handled.value) =>
              handled.updates = NoUpdate /\ attrs = handled.prev

\* C16: PWR 01 sets the state to ON and emits exactly {state: ON}; PWR 00
\* sets OFF and emits {state: OFF}; any other value leaves the attributes
\* as they were and emits nothing, whatever the state was.
C16_PowerDecode ==
    Handling(PWR) =>
        IF handled.value = <<48, 49>>
        THEN /\ attrs = [handled.prev EXCEPT !.state = "ON"]
             /\ handled.updates = <<[state |-> "ON"]>>
        ELSE IF handled.value = <<48, 48>>
        THEN /\ attrs = [handled.prev EXCEPT !.state = "OFF"]
             /\ handled.updates = <<[state |-> "OFF"]>>
        ELSE attrs = handled.prev /\ handled.updates = NoUpdate

\* PWR 01 arrived at a device that was OFF
C16_Witness ==
    /\ Handling(PWR) /\ handled.value = <<48, 49>>
    /\ handled.prev.state = "OFF" /\ attrs.state = "ON"
    /\ handled.updates = <<[state |-> "ON"]>>

\* C17: after any sequence of inbound frames the volume is an integer in 0..80.
C17_VolumeInRange == attrs.volume \in 0..80

\* C18: an NTM value that is not of the form mm:ss/mm:ss leaves position and
\* duration as they were, emits no update, and no exception leaves the handler.
C18_MalformedTimeIgnored ==
    (Handling(NTM) /\ ~WellFormedTime(handled.value)) =>
        /\ attrs.position = handled.prev.position
        /\ attrs.duration = handled.prev.duration
        /\ handled.updates = NoUpdate
        /\ ~handled.raised

\* C19: the SLI (LMD) handler never raises; the source (sound mode) becomes
\* the registry name of the upper-cased value, or "INPUT <value>"
\* ("MODE <value>") when the registry has none.
C19_LabelOrFallback ==
    /\ Handling(SLI) =>
          /\ ~handled.raised
          /\ attrs.source =
                IF Upper(handled.value) \in DOMAIN INPUT_SOURCES
                THEN INPUT_SOURCES[Upper(handled.value)]
                ELSE <<73, 78, 80, 85, 84, 32>> \o handled.value
    /\ Handling(LMD) =>
          /\ ~handled.raised
          /\ attrs.sound_mode =
                IF Upper(handled.value) \in DOMAIN LISTENING_MODES
                THEN LISTENING_MODES[Upper(handled.value)]
                ELSE <<77, 79, 68, 69, 32>> \o handled.value

\* after LMD zz had given the label "MODE zz", SLI 2a gave "USB REAR"
C19_Witness ==
    /\ Handling(SLI) /\ handled.value = <<50, 97>>
    /\ attrs.source = <<85, 83, 66, 32, 82, 69, 65, 82>>
    /\ attrs.sound_mode = <<77, 79, 68, 69, 32, 122, 122>>
    /\ handled.prev.sound_mode = <<77, 79, 68, 69, 32, 122, 122>>

(***************************************************************************)
(* OnkyoDevice.set_volume_level on a device and its connection.            *)
(***************************************************************************)
HexDigit(d) == IF d < 10 THEN 48 + d ELSE 55 + d

RECURSIVE HexDigits(_)
HexDigits(n) ==
    IF n < 16 THEN <<HexDigit(n)>> ELSE Append(HexDigits(n \div 16), HexDigit(n % 16))

\* format(n, "02X"): upper-case hex, zero-padded to two characters, sign first
format_02X(n) ==
    LET digits == HexDigits(IF n < 0 THEN 0 - n ELSE n)
        sign == IF n < 0 THEN <<45>> ELSE <<>>
    IN IF Len(sign) + Len(digits) < 2 THEN sign \o <<48>> \o digits ELSE sign \o digits

\* onkyo_vol = max(0, min(80, volume))
onkyo_vol(volume) ==
    LET capped == IF volume < 80 THEN volume ELSE 80
    IN IF capped > 0 THEN capped ELSE 0

\* the volumes the presentation layer asks for
VolumeRequests == {0 - 5, 0, 40, 80, 81, 999}

\* set_volume_level(volume), up to the first await of its send_command
SetVolume(volume) ==
    send_command(MVL, format_02X(onkyo_vol(volume)), "set_volume", <<volume, 0>>)

\* if not 0 <= volume <= 80 in OnkyoReceiver.set_volume
volume_refused(volume) == ~(0 <= volume /\ volume <= 80)

\* OnkyoReceiver.set_volume(volume) of the first integration, up to the first
\* await of its send_command
ReceiverSetVolume(volume) ==
    IF volume_refused(volume)
    THEN /\ sending = 0
         /\ last' = StepArg("set_volume", 0, connected, "false", TotalOut, <<volume, 1>>)
         /\ UNCHANGED <<connVars, sockVars, opVars, devVars, calls, sideVars>>
    ELSE send_command(MVL, format_02X(volume), "set_volume", <<volume, 1>>)

VolumeNext ==
    \/ ConnectOk
    \/ \E s \in Socks : PeerClose(s)
    \/ \E t \in Socks : ListenStart(t)
    \/ \E t \in Socks : ListenReadError(t)
    \/ \E v \in VolumeRequests : SetVolume(v)
    \/ \E v \in VolumeRequests : ReceiverSetVolume(v)
    \/ SendDrainOk
    \/ SendDrainFail

SpecVolume == Init /\ [][VolumeNext]_vars

\* the packets handed to the sockets
Written == UNION {Range(out[s]) : s \in Socks}

\* the 2-digit upper-case hex text of a number in 0..255
IsHex2(text, n) ==
    /\ Len(text) = 2
    /\ Upper(text) = text
    /\ ParseInt(text, 16) = [ok |-> TRUE, val |-> n]

\* C20: set_volume(v) on a Connected device, in either integration, sends
\* exactly one MVL command whose value is the 2-digit upper-case hex of
\* min(80, max(0, v)); no MVL magnitude above hex 50 or below 00 is ever
\* written.
C20_VolumeClamp ==
    /\ (last.op = "set_volume" /\ last.pre /\ writer # 0) =>
          /\ TotalOut = last.n + 1
          /\ LET sent == decode_packet(out[writer][Len(out[writer])])
                 v == last.arg[1]
                 want == IF v < 0 THEN 0 ELSE IF v > 80 THEN 80 ELSE v
             IN sent.ok /\ sent.cmd = MVL /\ IsHex2(sent.value, want)
    /\ \A p \in Written :
          decode_packet(p).cmd = MVL =>
              \E n \in 0..80 : IsHex2(decode_packet(p).value, n)

(***************************************************************************)
(* Command Registry: the name-to-code maps and the lookups of              *)
(* select_source / select_sound_mode.                                      *)
(***************************************************************************)
\* the codes of INPUT_SOURCES in the order the dict lists them
InputCodes == <<<<48, 49>>, <<50, 48>>, <<50, 50>>, <<50, 51>>, <<50, 54>>, <<50, 65>>>>

\* the codes of LISTENING_MODES in the order the dict lists them
ModeCodes == <<<<48, 48>>, <<48, 65>>>>

\* {v: k for k, v in registry.items()}: the code listed last under a name
\* is the one the name keeps
name_to_code(registry, order) ==
    [n \in {registry[order[i]] : i \in DOMAIN order} |->
        order[CHOOSE i \in DOMAIN order :
                /\ registry[order[i]] = n
                /\ \A j \in DOMAIN order : registry[order[j]] = n => j <= i]]

\* the keys of that dict in insertion order: each name where it came first
RECURSIVE key_order(_, _)
key_order(registry, order) ==
    IF order = <<>> THEN <<>>
    ELSE LET front == key_order(registry, SubSeq(order, 1, Len(order) - 1))
         IN IF registry[order[Len(order)]] \in Range(front) THEN front
            ELSE Append(front, registry[order[Len(order)]])

SOURCE_TO_CODE == name_to_code(INPUT_SOURCES, InputCodes)

LISTENING_MODE_TO_CODE == name_to_code(LISTENING_MODES, ModeCodes)

SourceKeys == key_order(INPUT_SOURCES, InputCodes)

ModeKeys == key_order(LISTENING_MODES, ModeCodes)

\* a lookup by the exact name only
lookup_code_exact(table, keys, name) ==
    IF name \in DOMAIN table /\ table[name] # <<>> THEN table[name] ELSE <<>>

\* code = TABLE.get(name); if not code: the first key that equals the name
\* ignoring case; <<>> stands for no code
lookup_code(table, keys, name) ==
    IF name \in DOMAIN table /\ table[name] # <<>> THEN table[name]
    ELSE IF \E i \in DOMAIN keys : Upper(keys[i]) = Upper(name)
    THEN table[keys[CHOOSE i \in DOMAIN keys :
                        /\ Upper(keys[i]) = Upper(name)
                        /\ \A j \in 1..(i - 1) : Upper(keys[j]) # Upper(name)]]
    ELSE <<>>

(***************************************************************************)
(* OnkyoDevice: the outbound operations.                                   *)
(***************************************************************************)
IFA == <<73, 70, 65>>                                      \* CMD_AUDIO_INFO "IFA"
NTC == <<78, 84, 67>>                                      \* CMD_NET_USB_PLAY "NTC"
OSD == <<79, 83, 68>>                                      \* "OSD"
QSTN == <<81, 83, 84, 78>>                                    \* "QSTN"

\* the control methods that send one fixed pair
ControlCommands ==
    [power_on |-> <<PWR, <<48, 49>>>>, power_off |-> <<PWR, <<48, 48>>>>,
     volume_up |-> <<MVL, <<85, 80>>>>, volume_down |-> <<MVL, <<68, 79, 87, 78>>>>,
     mute_toggle |-> <<AMT, <<84, 71>>>>,
     play |-> <<NTC, <<80, 76, 65, 89>>>>, pause |-> <<NTC, <<80, 65, 85, 83, 69>>>>, stop |-> <<NTC, <<83, 84, 79, 80>>>>,
     next_track |-> <<NTC, <<84, 82, 85, 80>>>>, previous_track |-> <<NTC, <<84, 82, 68, 78>>>>,
     menu_up |-> <<OSD, <<85, 80>>>>, menu_down |-> <<OSD, <<68, 79, 87, 78>>>>,
     menu_left |-> <<OSD, <<76, 69, 70, 84>>>>, menu_right |-> <<OSD, <<82, 73, 71, 72, 84>>>>,
     menu_enter |-> <<OSD, <<69, 78, 84, 69, 82>>>>, menu_back |-> <<OSD, <<69, 88, 73, 84>>>>,
     menu_home |-> <<OSD, <<72, 79, 77, 69>>>>, show_menu |-> <<OSD, <<77, 69, 78, 85>>>>,
     show_info |-> <<IFA, QSTN>>]

\* no update() is under way: the model takes the calls of the presentation
\* layer one after the other
Quiet == upd.pc = "idle"

\* a control method that also sets the attribute it asks for
ControlOptimistic(op) ==
    /\ Quiet
    /\ sending = 0
    /\ ~send_refused(connected, writer)
    /\ TotalOut < MaxSends
    /\ out' = [out EXCEPT ![writer] =
                  Append(@, build_packet(ControlCommands[op][1] \o ControlCommands[op][2]))]
    /\ sending' = writer
    /\ last' = StepArg(op, 0, connected, "pending", TotalOut, <<0, 0>>)
    /\ attrs' = [attrs EXCEPT !.state = IF op = "power_off" THEN "OFF" ELSE "ON"]
    /\ UNCHANGED <<connVars, arrived, pos, eof, closed, nsock, nframes, peerData, dpc, dtask,
                   devVars, calls, codecVars, drvVars, conns, handled, upd, disc>>

\* power_on() ... show_info()
Control(op) ==
    /\ Quiet
    /\ send_command(ControlCommands[op][1], ControlCommands[op][2], op, <<0, 0>>)

\* mute(mute)
Mute(mute) ==
    /\ Quiet
    /\ send_command(AMT, IF mute THEN <<48, 49>> ELSE <<48, 48>>, "mute", <<0, 0>>)

\* the body select_source and select_sound_mode share: look the name up,
\* send the code or log a warning
select(cmd, table, keys, name, op, arg) ==
    IF lookup_code(table, keys, name) # <<>>
    THEN send_command(cmd, lookup_code(table, keys, name), op, arg)
    ELSE /\ last' = StepArg(op, 0, connected, "unknown", TotalOut, arg)
         /\ UNCHANGED <<connVars, sockVars, opVars, devVars, calls, sideVars>>

\* the names the presentation layer selects and sends; a step records the
\* place of the name in its list
SourceNames == <<<<67, 68>>, <<99, 100>>, <<85, 115, 98, 32, 82, 101, 97, 114>>, <<84, 85, 78, 69, 82>>, <<>>, <<78, 79, 80, 69>>>>
ModeNames == <<<<83, 84, 85, 68, 73, 79, 45, 77, 73, 88>>, <<83, 116, 117, 100, 105, 111, 45, 77, 105, 120>>, <<>>, <<78, 79, 80, 69>>>>
SimpleNames == <<<<>>, <<80, 79, 87, 69, 82, 95, 79, 78>>, <<77, 85, 84, 69, 95, 84, 79, 71, 71, 76, 69>>, <<78, 79, 80, 69>>>>
Place(names, name) == CHOOSE i \in DOMAIN names : names[i] = name

\* select_source(source)
SelectSource(name) ==
    /\ Quiet
    /\ select(SLI, SOURCE_TO_CODE, SourceKeys, name, "select_source",
              <<Place(SourceNames, name), 0>>)

\* select_sound_mode(mode)
SelectSoundMode(name) ==
    /\ Quiet
    /\ select(LMD, LISTENING_MODE_TO_CODE, ModeKeys, name, "select_sound_mode",
              <<Place(ModeNames, name), 0>>)

\* send_raw_command(command, value); a step records the two lengths
SendRaw(command, val) ==
    /\ Quiet
    /\ send_command(command, val, "send_raw", <<Len(command), Len(val)>>)

\* SIMPLE_COMMAND_MAP, six of its entries: "POWER_ON", "MUTE_TOGGLE",
\* "INPUT_CBL_SAT", "INPUT_CD", "INPUT_PHONO", "INPUT_TUNER"
SIMPLE_COMMAND_MAP ==
    (<<80, 79, 87, 69, 82, 95, 79, 78>> :> <<PWR, <<48, 49>>>>) @@ (<<77, 85, 84, 69, 95, 84, 79, 71, 71, 76, 69>> :> <<AMT, <<84, 71>>>>)
        @@ (<<73, 78, 80, 85, 84, 95, 67, 66, 76, 95, 83, 65, 84>> :> <<SLI, <<48, 49>>>>)
        @@ (<<73, 78, 80, 85, 84, 95, 67, 68>> :> <<SLI, <<50, 51>>>>)
        @@ (<<73, 78, 80, 85, 84, 95, 80, 72, 79, 78, 79>> :> <<SLI, <<50, 50>>>>)
        @@ (<<73, 78, 80, 85, 84, 95, 84, 85, 78, 69, 82>> :> <<SLI, <<50, 54>>>>)

\* OnkyoRemote._send_simple_command(command) up to its first await
send_simple_command(name, op, arg, refused) ==
    IF name # <<>> /\ name \in DOMAIN SIMPLE_COMMAND_MAP
    THEN /\ send_command_as(MaxSends, SIMPLE_COMMAND_MAP[name][1],
                            SIMPLE_COMMAND_MAP[name][2], op, arg, refused)
         /\ UNCHANGED upd
    ELSE /\ last' = StepArg(op, 0, connected, "bad_request", TotalOut, arg)
         /\ UNCHANGED <<connVars, sockVars, opVars, devVars, calls, sideVars>>

\* _send_simple_command(command) as far as the connection goes
SendSimple(name) ==
    /\ Quiet
    /\ send_simple_command(name, "send_simple", <<Place(SimpleNames, name), 0>>, "false")

\* the codes and values handed to send_raw_command
RawCommands == {<<>>, PWR}
RawValues == {<<>>, <<48, 49>>}

\* the frames the receiver reports while the operations run
ControlInbound ==
    (SLI :> {<<50, 50>>}) @@ (LMD :> {<<48, 65>>})

(***************************************************************************)
(* OnkyoDevice.update(): five queries, a sleep after each but the last.    *)
(***************************************************************************)
\* the queries with the first two in the other order
UpdateQueriesSwapped == <<MVL, PWR, AMT, SLI, LMD>>

\* the codes update() queries, in its order
UpdateQueries == <<PWR, MVL, AMT, SLI, LMD>>

\* update(): if not self._eiscp.connected: return
UpdateCall ==
    /\ Quiet
    /\ sending = 0
    /\ upd.runs < MaxUpdates
    /\ upd' = [pc |-> IF connected THEN "send" ELSE "idle", k |-> 0, base |-> TotalOut,
               runs |-> upd.runs + 1, held |-> TRUE]
    /\ last' = StepArg(IF connected THEN "update_call" ELSE "update_return", 0, connected,
                       "none", TotalOut, <<0, 0>>)
    /\ UNCHANGED <<connVars, sockVars, opVars, devVars, calls, codecVars, drvVars, conns, attrs,
                   handled, disc>>

\* await self._eiscp.send_command(<code>, "QSTN"), up to its first await
UpdateSend ==
    /\ upd.pc = "send"
    /\ send_command_io(TotalOut + 1, UpdateQueries[upd.k + 1], QSTN, "update_send",
                       <<upd.k + 1, 0>>)
    /\ upd' = [upd EXCEPT
                 !.k = @ + 1,
                 !.held = @ /\ ~send_refused(connected, writer),
                 !.pc = IF ~send_refused(connected, writer) THEN "drain"
                        ELSE IF upd.k + 1 = Len(UpdateQueries) THEN "idle" ELSE "send"]

\* send_command has returned: await asyncio.sleep(0.1), or the end of update()
UpdateResume ==
    /\ upd.pc = "drain"
    /\ sending = 0
    /\ upd' = [upd EXCEPT !.pc = IF upd.k = Len(UpdateQueries) THEN "idle" ELSE "send"]
    /\ last' = StepArg(IF upd.k = Len(UpdateQueries) THEN "update_return" ELSE "update_sleep",
                       0, connected, "none", TotalOut, <<upd.k, 0>>)
    /\ UNCHANGED <<connVars, sockVars, opVars, devVars, calls, codecVars, drvVars, conns, attrs,
                   handled, disc>>

(***************************************************************************)
(* A device under the calls of the presentation layer, its receiver        *)
(* reporting state in between.                                             *)
(***************************************************************************)
ControlNext ==
    \/ nsock = 0 /\ ConnectOk
    \/ \E s \in Socks : PeerClose(s)
    \/ connected /\ \E cmd \in DOMAIN ControlInbound : \E v \in ControlInbound[cmd] : Handle(cmd, v)
    \/ \E op \in DOMAIN ControlCommands : Control(op)
    \/ \E m \in BOOLEAN : Mute(m)
    \/ \E v \in VolumeRequests : Quiet /\ SetVolume(v)
    \/ \E n \in Range(SourceNames) : SelectSource(n)
    \/ \E n \in Range(ModeNames) : SelectSoundMode(n)
    \/ \E c \in RawCommands, v \in RawValues : SendRaw(c, v)
    \/ \E n \in Range(SimpleNames) : SendSimple(n)
    \/ UpdateCall
    \/ UpdateSend
    \/ UpdateResume
    \/ SendDrainOk
    \/ SendDrainFail

SpecControl == Init /\ [][ControlNext]_vars

\* every packet written, oldest first: a write goes to the newest socket
RECURSIVE OutUpTo(_)
OutUpTo(s) == IF s = 0 THEN <<>> ELSE OutUpTo(s - 1) \o out[s]

AllOut == OutUpTo(MaxSock)

\* the frame a packet carries
Sent(p) == decode_packet(p)

\* the codes a registry lists under a name, ignoring case
CodesFor(registry, name) == {c \in DOMAIN registry : Upper(registry[c]) = Upper(name)}

\* the packet written last
Newest == Sent(AllOut[Len(AllOut)])

\* what a select call left behind
Selected(op, cmd, registry, names) ==
    last.op = op =>
        IF CodesFor(registry, names[last.arg[1]]) = {}
        THEN TotalOut = last.n
        ELSE (last.pre /\ writer # 0) =>
                /\ TotalOut = last.n + 1
                /\ Newest.cmd = cmd
                /\ Newest.value \in CodesFor(registry, names[last.arg[1]])

\* C21: select_source(name) sends exactly one SLI command, and
\* select_sound_mode(name) exactly one LMD command, carrying the registry
\* code when the name equals a registry name ignoring case; when no registry
\* name matches, the empty name included, nothing is written.
C21_SelectLookup ==
    /\ Selected("select_source", SLI, INPUT_SOURCES, SourceNames)
    /\ Selected("select_sound_mode", LMD, LISTENING_MODES, ModeNames)

\* select_source("cd") on a Connected device wrote the one packet SLI23
C21_Witness ==
    /\ last.op = "select_source" /\ last.pre
    /\ SourceNames[last.arg[1]] = <<99, 100>>
    /\ AllOut = <<build_packet(SLI \o <<50, 51>>)>>

\* C22: send_raw with an empty command code is rejected locally: no frame
\* is written for it, neither by send_raw_command nor by a simple command
\* with an empty name.
C22_EmptyRawRejected ==
    /\ (last.op = "send_raw" /\ last.arg[1] = 0) =>
          TotalOut = last.n /\ last.ret = "false"
    /\ (last.op = "send_simple" /\ SimpleNames[last.arg[1]] = <<>>) =>
          TotalOut = last.n /\ last.ret = "bad_request"

\* power, volume, mute, input, listening mode: the order a refresh is to keep
RefreshOrder == <<PWR, MVL, AMT, SLI, LMD>>

\* the packets of the five queries in that order
QueryPackets == [i \in DOMAIN RefreshOrder |-> build_packet(RefreshOrder[i] \o QSTN)]

\* what the update() under way, or just over, has written
UpdateWrote == SubSeq(AllOut, upd.base + 1, Len(AllOut))

\* w is made of elements of q in the order of q, none of them twice
InOrder(w, q) ==
    \E f \in [DOMAIN w -> DOMAIN q] :
        /\ \A i \in DOMAIN w : w[i] = q[f[i]]
        /\ \A i, j \in DOMAIN w : i < j => f[i] < f[j]

\* an update() is under way or has just returned
Updating == upd.pc # "idle" \/ (upd.runs > 0 /\ last.op \in {"update_send", "update_return"})

\* C23: update() on a Connected device sends the queries PWR, MVL, AMT, SLI,
\* LMD, each with value QSTN, in that order and each once; on a connection
\* that is not Connected it sends nothing, and once the connection has
\* dropped the queries that remain are not written and nothing is raised.
C23_UpdateQueries ==
    /\ Updating =>
          /\ InOrder(UpdateWrote, SubSeq(QueryPackets, 1, upd.k))
          /\ upd.held => UpdateWrote = SubSeq(QueryPackets, 1, upd.k)
          /\ (upd.pc = "idle" /\ upd.k > 0) => upd.k = Len(RefreshOrder)
    /\ last.op = "update_send" =>
          IF last.pre /\ writer # 0
          THEN TotalOut = last.n + 1 /\ Newest = Sent(QueryPackets[last.arg[1]])
          ELSE TotalOut = last.n /\ last.ret = "false"
    /\ (last.op = "update_return" /\ ~last.pre /\ upd.k = 0) => UpdateWrote = <<>>

\* an update() on a connection that stayed Connected has returned with the
\* five queries written
C23_Witness ==
    /\ last.op = "update_return" /\ last.pre /\ connected
    /\ upd.pc = "idle" /\ upd.held
    /\ AllOut = QueryPackets

\* the steps of the outbound operations and of update()
OutboundOps ==
    DOMAIN ControlCommands \cup
        {"mute", "set_volume", "select_source", "select_sound_mode", "send_raw",
         "send_simple", "update_call", "update_send", "update_sleep", "update_return"}

\* the step just taken belongs to an outbound operation
OutboundStep == last' # last /\ last'.op \in OutboundOps

\* C26: no outbound operation (power, volume, mute, select, transport and
\* menu controls, send_raw_command, update) changes a Device State attribute
\* or emits an update; the state changes only when an inbound frame is
\* handled.
C26_OutboundLeavesState ==
    [][OutboundStep => attrs' = attrs /\ handled' = handled]_vars

\* power_on() was sent from a device whose state an inbound frame had set;
\* the state is as the frame left it
C26_Witness ==
    /\ last.op = "power_on" /\ last.ret = "pending"
    /\ handled.cmd = SLI
    /\ attrs = [InitialAttrs EXCEPT !.source = <<84, 85, 78, 69, 82>>]
    /\ AllOut = <<build_packet(PWR \o <<48, 49>>)>>

\* C27: the registry maps are mutually inverse, so a source or a mode the
\* device reports is selected again with the code it was reported under.
C27_RegistryInverse ==
    /\ ( /\ last.op = "select_source" /\ last.pre /\ writer # 0
         /\ handled.cmd = SLI /\ Upper(handled.value) \in DOMAIN INPUT_SOURCES
         /\ SourceNames[last.arg[1]] = INPUT_SOURCES[Upper(handled.value)] )
          => Newest.cmd = SLI /\ Newest.value = Upper(handled.value)
    /\ ( /\ last.op = "select_sound_mode" /\ last.pre /\ writer # 0
         /\ handled.cmd = LMD /\ Upper(handled.value) \in DOMAIN LISTENING_MODES
         /\ ModeNames[last.arg[1]] = LISTENING_MODES[Upper(handled.value)] )
          => Newest.cmd = LMD /\ Newest.value = Upper(handled.value)

(***************************************************************************)
(* discover_receivers(timeout): one broadcast, then recvfrom in a loop.    *)
(* Time is counted in ticks; code between two waits takes no time.         *)
(***************************************************************************)
EISCP_PORT == 60128

\* sub in s
Contains(s, sub) ==
    \E i \in 1..(Len(s) - Len(sub) + 1) : SubSeq(s, i, i + Len(sub) - 1) = sub

\* s.replace(old, "")
RECURSIVE Remove(_, _)
Remove(s, old) ==
    IF s = <<>> THEN <<>>
    ELSE IF StartsWith(s, old) THEN Remove(SubSeq(s, Len(old) + 1, Len(s)), old)
    ELSE <<Head(s)>> \o Remove(Tail(s), old)

\* bytes.decode("utf-8", errors="ignore") (one- and two-byte sequences)
RECURSIVE decode_ignore(_)
decode_ignore(b) ==
    IF b = <<>> THEN <<>>
    ELSE IF b[1] < 128 THEN <<b[1]>> \o decode_ignore(Tail(b))
    ELSE IF b[1] >= 194 /\ b[1] <= 223 /\ Len(b) >= 2 /\ b[2] >= 128 /\ b[2] <= 191
    THEN <<(b[1] - 192) * 64 + (b[2] - 128)>> \o decode_ignore(Tail(Tail(b)))
    ELSE decode_ignore(Tail(b))

\* a result list that takes every entry
append_always(receivers, info) == Append(receivers, info)

\* if receiver_info not in receivers: receivers.append(receiver_info)
append_new(receivers, info) ==
    IF \E i \in DOMAIN receivers : receivers[i] = info THEN receivers
    ELSE Append(receivers, info)

\* model = parts[0].replace("!1ECN", "").strip(); receiver_info = {...}
receiver_info(host, response) ==
    [host |-> host, port |-> EISCP_PORT,
     model |-> Strip(Remove(Split(response, 47)[1], <<33, 49, 69, 67, 78>>))]

\* the body of the loop after recvfrom returned (data, addr)
on_datagram(receivers, host, data) ==
    IF Len(data) > HeaderLen /\ SubSeq(data, 1, 4) = MAGIC
    THEN IF Contains(decode_ignore(SubSeq(data, HeaderLen + 1, Len(data))), <<69, 67, 78>>)
         THEN append_new(receivers,
                         receiver_info(host, decode_ignore(SubSeq(data, HeaderLen + 1, Len(data)))))
         ELSE receivers
    ELSE receivers

\* a reply datagram with the payload given
datagram(payload) ==
    MAGIC \o PackU32(HeaderLen) \o PackU32(Len(payload)) \o <<1, 0, 0, 0>> \o payload

\* the datagrams that may arrive, with the address they come from: the same
\* model from two hosts, the model again with a byte that is not UTF-8, a
\* frame that is no ECN reply, and a datagram without the magic
Replies ==
    {<<"10.0.0.5", datagram(<<33, 49, 69, 67, 78, 84, 88, 47, 54>>)>>,
     <<"10.0.0.6", datagram(<<33, 49, 69, 67, 78, 84, 88, 47, 54>>)>>,
     <<"10.0.0.5", datagram(<<33, 49, 69, 67, 78>> \o <<255>> \o <<84, 88, 47, 54>>)>>,
     <<"10.0.0.5", datagram(<<33, 49, 80, 87, 82, 48, 49>>)>>,
     <<"10.0.0.6", <<72, 84, 84, 80>> \o datagram(<<33, 49, 69, 67, 78, 84, 88, 47, 54>>)>>}

\* sock.sendto(packet, ...); start_time = loop.time()
DiscoverCall(timeout) ==
    /\ disc.pc = "idle"
    /\ disc' = [disc EXCEPT !.pc = "loop", !.timeout = timeout, !.start = disc.now,
                            !.sent = <<discover_packet>>]
    /\ UNCHANGED <<connVars, sockVars, opVars, devVars, calls, last, codecVars, drvVars, conns, attrs,
                   handled, upd>>

\* while loop.time() - start_time < timeout: data, addr = sock.recvfrom(1024)
DiscoverLoop ==
    /\ disc.pc = "loop"
    /\ disc' = IF disc.now - disc.start < disc.timeout
               THEN [disc EXCEPT !.pc = "recv", !.since = disc.now]
               ELSE [disc EXCEPT !.pc = "done", !.returned = disc.now]
    /\ UNCHANGED <<connVars, sockVars, opVars, devVars, calls, last, codecVars, drvVars, conns, attrs,
                   handled, upd>>

\* time passes while recvfrom blocks, sock.settimeout(timeout) at most
DiscoverTick ==
    /\ disc.pc = "recv"
    /\ disc.now < disc.since + disc.timeout
    /\ disc' = [disc EXCEPT !.now = @ + 1]
    /\ UNCHANGED <<connVars, sockVars, opVars, devVars, calls, last, codecVars, drvVars, conns, attrs,
                   handled, upd>>

\* recvfrom returns a datagram
DiscoverReply(r) ==
    /\ disc.pc = "recv"
    /\ Len(disc.seen) < MaxDatagrams
    /\ disc' = [disc EXCEPT !.pc = "loop", !.seen = Append(@, r),
                            !.receivers = on_datagram(@, r[1], r[2])]
    /\ UNCHANGED <<connVars, sockVars, opVars, devVars, calls, last, codecVars, drvVars, conns, attrs,
                   handled, upd>>

\* except socket.timeout: break
DiscoverTimeout ==
    /\ disc.pc = "recv"
    /\ disc.now = disc.since + disc.timeout
    /\ disc' = [disc EXCEPT !.pc = "done", !.returned = disc.now]
    /\ UNCHANGED <<connVars, sockVars, opVars, devVars, calls, last, codecVars, drvVars, conns, attrs,
                   handled, upd>>

\* except Exception: break
DiscoverError ==
    /\ disc.pc = "recv"
    /\ disc' = [disc EXCEPT !.pc = "done", !.returned = disc.now]
    /\ UNCHANGED <<connVars, sockVars, opVars, devVars, calls, last, codecVars, drvVars, conns, attrs,
                   handled, upd>>

DiscoverNext ==
    \/ \E timeout \in 1..MaxTimeout : DiscoverCall(timeout)
    \/ DiscoverLoop
    \/ DiscoverTick
    \/ \E r \in Replies : DiscoverReply(r)
    \/ DiscoverTimeout
    \/ DiscoverError

SpecDiscover == Init /\ [][DiscoverNext]_vars

\* C24: within one discover_receivers() call the result list never holds
\* two equal {host, port, model} entries, whatever datagrams arrive and in
\* whatever order.
C24_NoDuplicates ==
    \A i, j \in DOMAIN disc.receivers :
        disc.receivers[i] = disc.receivers[j] => i = j

\* two identical replies from the same host were received and the list has
\* the one entry
C24_Witness ==
    /\ Len(disc.seen) = 2
    /\ disc.seen[1] = disc.seen[2]
    /\ disc.receivers = <<[host |-> "10.0.0.5", port |-> EISCP_PORT, model |-> <<84, 88>>]>>

\* C25: discover_receivers(timeout) returns no later than timeout after it
\* started, whatever datagrams arrive and whenever they arrive.
C25_ReturnsByTimeout ==
    /\ disc.pc # "idle" => disc.now - disc.start <= disc.timeout
    /\ disc.pc = "done" => disc.returned - disc.start <= disc.timeout

(***************************************************************************)
(* The life of a connection: reconnects, listeners, overlapping calls.     *)
(***************************************************************************)
\* no disconnect() and no send_command() is under way
AtRest == dpc = "idle" /\ sending = 0

RunningTasks == {t \in Socks : Running(t)}

\* the sockets connect() has opened and nothing has closed
OpenSockets == {s \in 1..nsock : ~closed[s]}

\* C29: whatever connect(), disconnect() and I/O failures have happened,
\* connect() on a Connected connection included, a connection has at most
\* one running listener task and at most one open socket.
C29_OneListenerOneSocket ==
    /\ Cardinality(RunningTasks) <= 1
    /\ Cardinality(OpenSockets) <= 1

\* C30: no two of connect(), disconnect() and send_command() of one
\* connection are ever in progress at the same time.
C30_OneAtATime ==
    /\ ~(dpc # "idle" /\ sending # 0)
    /\ last.op \in {"connect_ok", "connect_fail"} => AtRest

(***************************************************************************)
(* disconnect() and the listener's reads.                                  *)
(***************************************************************************)
\* the listener tasks waiting in readexactly
Reading == {t \in Socks : tasks[t].pc \in {"hdr", "data"}}

\* C31: disconnect() closes the socket only after the cancelled listener
\* has ended: no listener task ever waits in a read on a socket that
\* disconnect() has closed.
C31_CloseAfterListener == \A t \in Reading : ~closed[tasks[t].rd]

(***************************************************************************)
(* A stream that carries frames with a bad magic and a payload.            *)
(***************************************************************************)
\* a frame whose magic is "XSCP" and whose header gives the payload's length
BadMagicFrame(payload) ==
    <<88, 83, 67, 80>> \o PackU32(HeaderLen) \o PackU32(Len(payload))
        \o <<1, 0, 0, 0>> \o payload

\* what the receiver sends: bad frames with a payload of 0, 2 and 16 bytes,
\* and the power report
ResyncChunks ==
    {BadMagicFrame(<<>>), BadMagicFrame(<<33, 49>>),
     BadMagicFrame(<<33, 49, 80, 87, 82, 48, 48, 13, 10, 46, 46, 46, 46, 46, 46, 46>>),
     build_packet(PWR01)}

ResyncInit ==
    /\ ConnInit
    /\ callbacks = DeviceCallbacks
    /\ peerData = ResyncChunks
    /\ nframes = MaxFrames
    /\ CodecIdle
    /\ AuxIdle
    /\ DrvIdle

\* one connection, its peer and its listener
ResyncNext ==
    \/ nsock = 0 /\ ConnectOk
    \/ \E chunk \in ResyncChunks : PeerSend(1, chunk)
    \/ PeerClose(1)
    \/ ListenStart(1)
    \/ ListenHeader(1)
    \/ ListenData(1)
    \/ ListenReadError(1)

SpecResync == ResyncInit /\ [][ResyncNext]_vars

\* the offsets in a stream of whole frames at which a frame begins or the
\* stream ends, from offset b on, by the lengths the headers give
RECURSIVE FrameEnds(_, _)
FrameEnds(stream, b) ==
    IF Len(stream) - b < HeaderLen THEN {b}
    ELSE {b} \cup FrameEnds(stream,
             b + HeaderLen + unpack_header(SubSeq(stream, b + 1, b + HeaderLen)).data_size)

\* the well-formed frames among them
GoodFrames(stream) ==
    {b \in FrameEnds(stream, 0) :
        /\ Len(stream) - b >= HeaderLen
        /\ unpack_header(SubSeq(stream, b + 1, b + HeaderLen)).magic = MAGIC}

\* C32: a frame with a bad magic is discarded whole, header and payload,
\* whatever the length of its payload: every header read of the listener
\* begins where a frame begins, and once the listener has read all it can
\* every well-formed frame of the stream has been dispatched to its callback.
C32_BadFrameDiscarded ==
    \A t \in Socks : tasks[t].pc = "hdr" =>
        /\ pos[tasks[t].rd] \in FrameEnds(arrived[tasks[t].rd], 0)
        /\ Avail(tasks[t].rd) < HeaderLen =>
              Len(calls) = Cardinality(GoodFrames(arrived[tasks[t].rd]))

(***************************************************************************)
(* The entities' command handlers: OnkyoMediaPlayer.command and            *)
(* OnkyoRemote.command on top of the control methods.                      *)
(***************************************************************************)
\* the status a handler returns once the control method it awaited is back,
\* sent being what send_command returned: `await self._receiver.power_on()`
\* and `return StatusCodes.OK` follow each other whatever came back
command_status(sent) == "OK"

\* OnkyoMediaPlayer.command: the command ids ON, OFF, VOLUME_UP, MUTE_TOGGLE
\* and the control methods they call
MediaCommands ==
    [on |-> "power_on", off |-> "power_off", volume_up |-> "volume_up",
     mute_toggle |-> "mute_toggle"]

\* the command ids the remote sends, one of them unknown to the handler
CommandIds == <<"on", "off", "volume_up", "mute_toggle", "rewind">>

\* OnkyoMediaPlayer.command(cmd_id) up to its first await; a step records
\* the place of the id
MediaPlayerCommand(cmd_id) ==
    /\ Quiet
    /\ IF cmd_id \in DOMAIN MediaCommands
       THEN /\ send_command_as(MaxSends, ControlCommands[MediaCommands[cmd_id]][1],
                               ControlCommands[MediaCommands[cmd_id]][2], "mp_command",
                               <<Place(CommandIds, cmd_id), 0>>, command_status(FALSE))
            /\ UNCHANGED upd
       ELSE /\ last' = StepArg("mp_command", 0, connected, "NOT_IMPLEMENTED", TotalOut,
                               <<Place(CommandIds, cmd_id), 0>>)
            /\ UNCHANGED <<connVars, sockVars, opVars, devVars, calls, sideVars>>

\* OnkyoRemote.command(SEND_CMD, {"command": name}) up to its first await
RemoteSendCmd(name) ==
    /\ Quiet
    /\ send_simple_command(name, "remote_command", <<Place(SimpleNames, name), 0>>,
                           command_status(FALSE))

\* drain() returns, send_command returns True and the handler its status;
\* a step records 1 for True and 0 for False
CommandDrainOk == drain_returns("command_return", command_status(TRUE), <<1, 0>>)

\* drain() raises, send_command returns False and the handler its status
CommandDrainFail == drain_raises("command_return", command_status(FALSE), <<0, 0>>)

\* one device, its receiver and the commands of its two entities
EntityNext ==
    \/ ConnectOk
    \/ ConnectFail
    \/ \E s \in Socks : PeerClose(s)
    \/ \E i \in DOMAIN CommandIds : MediaPlayerCommand(CommandIds[i])
    \/ \E i \in DOMAIN SimpleNames : RemoteSendCmd(SimpleNames[i])
    \/ CommandDrainOk
    \/ CommandDrainFail

SpecEntity == Init /\ [][EntityNext]_vars

\* C36: a media-player or remote-entity command reports OK only when its
\* frame was written to the device: not when the connection is Disconnected
\* and not when send_command came back False.
C36_OkMeansWritten ==
    /\ (last.op \in {"mp_command", "remote_command"} /\ last.ret = "OK") =>
          TotalOut = last.n + 1
    /\ (last.op = "command_return" /\ last.ret = "OK") => last.arg[1] = 1

(***************************************************************************)
(* The INPUT_* simple commands and the receiver's echo of them.            *)
(***************************************************************************)
\* the INPUT_* commands the remote sends; a step records the place of the name
InputCommandNames == <<<<73, 78, 80, 85, 84, 95, 67, 66, 76, 95, 83, 65, 84>>, <<73, 78, 80, 85, 84, 95, 67, 68>>, <<73, 78, 80, 85, 84, 95, 80, 72, 79, 78, 79>>, <<73, 78, 80, 85, 84, 95, 84, 85, 78, 69, 82>>>>

\* _send_simple_command(command) with an INPUT_* command
SendInput(name) ==
    /\ Quiet
    /\ send_simple_command(name, "send_input", <<Place(InputCommandNames, name), 0>>, "false")

\* the receiver reports the setting the newest packet asked for, and the
\* listener hands the report to the device's handler
Echo ==
    /\ connected
    /\ TotalOut > 0
    /\ Handle(Newest.cmd, Newest.value)

InputNext ==
    \/ nsock = 0 /\ ConnectOk
    \/ \E s \in Socks : PeerClose(s)
    \/ \E i \in DOMAIN InputCommandNames : SendInput(InputCommandNames[i])
    \/ Echo
    \/ connected /\ \E cmd \in DOMAIN ControlInbound : \E v \in ControlInbound[cmd] : Handle(cmd, v)
    \/ SendDrainOk
    \/ SendDrainFail

SpecInput == Init /\ [][InputNext]_vars

\* a registry name as a command name spells it: "_" for " " and for "/"
Underscored(name) ==
    [i \in DOMAIN name |-> IF name[i] \in {32, 47} THEN 95 ELSE name[i]]

\* the source an INPUT_* command names: what follows "INPUT_"
NamedSource(command) == SubSeq(command, 7, Len(command))

\* the registry names a command name stands for
SourcesNamed(command) ==
    {INPUT_SOURCES[c] : c \in {k \in DOMAIN INPUT_SOURCES :
                                  Underscored(INPUT_SOURCES[k]) = NamedSource(command)}}

\* C40: an INPUT_* simple command named after a registry source sends on SLI
\* the code SOURCE_TO_CODE gives for that source, and the receiver's echo of
\* the command is decoded back to the source the command names.
C40_InputCommandsMatch ==
    (last.op = "send_input" /\ last.ret = "pending" /\ TotalOut = last.n + 1) =>
        /\ Newest.cmd = SLI
        /\ \A n \in SourcesNamed(InputCommandNames[last.arg[1]]) :
              Newest.value = SOURCE_TO_CODE[n]
        /\ (handled.cmd = SLI /\ handled.value = Newest.value) =>
              Underscored(attrs.source) = NamedSource(InputCommandNames[last.arg[1]])

(***************************************************************************)
(* driver.py: the remote's events, the devices it configured, the poller.  *)
(* A device's connection is taken as a whole here: connect() succeeds when *)
(* the receiver can be reached, disconnect() always does.                  *)
(***************************************************************************)
\* the entities of a device and their ids
EntityTypes == {"media_player", "remote"}
EntityIds == Devices \X EntityTypes

\* avr_from_entity_id(entity_id)
avr_from_entity_id(entity_id) == entity_id[1]

\* the entities of device d among ids
Of(d, ids) == {e[2] : e \in {x \in ids : avr_from_entity_id(x) = d}}

\* _configure_new_avr, the else branch: a new OnkyoDevice with the driver's
\* CONNECTED, DISCONNECTED, ERROR and UPDATE handlers on its events
NewAvr == [NoAvr EXCEPT !.configured = TRUE, !.handlers = TRUE]

\* main(): every device of the configuration is configured, none is
\* connected, the poller is started
StartedDriver == [NoDriver EXCEPT !.avr = [d \in Devices |-> NewAvr]]

\* the configuration main() found: one device per id
DeviceConfig(d) == [id |-> d, address |-> IF d = 1 THEN "10.0.0.5" ELSE "10.0.0.6"]

LoadedStore ==
    [NoStore EXCEPT !.mem = {DeviceConfig(d) : d \in Devices},
                    !.file = [exists |-> TRUE, devices |-> {DeviceConfig(d) : d \in Devices}]]

DriverInit ==
    /\ ConnInit
    /\ callbacks = DeviceCallbacks
    /\ peerData = {}
    /\ nframes = 0
    /\ CodecIdle
    /\ AuxIdle
    /\ drv = StartedDriver
    /\ store = LoadedStore

DriverOthers ==
    <<connVars, sockVars, opVars, devVars, calls, last, codecVars, auxVars, store>>

\* _LOOP.create_task(receiver.connect()), k times
spawn_connect(a, k) == [a EXCEPT !.connecting = @ + k]

\* OnkyoDevice.connect() run to its end
avr_connect(a, ok) ==
    IF ok THEN [a EXCEPT !.connected = TRUE, !.active = TRUE, !.failed = FALSE]
    ELSE [a EXCEPT !.connected = FALSE, !.failed = TRUE]

\* OnkyoDevice.disconnect() run to its end
avr_disconnect(a) == [a EXCEPT !.active = FALSE, !.connected = FALSE]

\* receiver.events.remove_all_listeners()
remove_all_listeners(a) == [a EXCEPT !.handlers = FALSE]

\* no device has more connect() tasks waiting than the bound
Bounded(avr) == \A d \in Devices : avr[d].connecting <= MaxPending

\* on_r2_connect_cmd, on_r2_exit_standby: a connect() task for every
\* configured device
connect_all(avr) ==
    [d \in Devices |-> IF avr[d].configured THEN spawn_connect(avr[d], 1) ELSE avr[d]]

\* on_r2_connect_cmd
R2Connect ==
    /\ drv.events < MaxEvents
    /\ Bounded(connect_all(drv.avr))
    /\ drv' = [drv EXCEPT !.events = @ + 1, !.sleeping = "no",
                          !.avr = connect_all(@)]
    /\ UNCHANGED DriverOthers

\* on_r2_enter_standby, up to its first await
EnterStandby ==
    /\ drv.events < MaxEvents
    /\ drv.spc = 0
    /\ drv' = [drv EXCEPT !.events = @ + 1, !.standby = TRUE, !.sleeping = "entering",
                          !.spc = 1]
    /\ UNCHANGED DriverOthers

\* on_r2_enter_standby: await configured.disconnect() returns for one device
StandbyStep ==
    /\ drv.spc \in Devices
    /\ drv' = [drv EXCEPT
                 !.avr[drv.spc] = IF @.configured THEN avr_disconnect(@) ELSE @,
                 !.spc = IF drv.spc < NumDevices THEN drv.spc + 1 ELSE 0,
                 !.sleeping = IF drv.spc = NumDevices /\ @ = "entering" THEN "yes" ELSE @]
    /\ UNCHANGED DriverOthers

\* on_r2_exit_standby
ExitStandby ==
    /\ drv.events < MaxEvents
    /\ Bounded(connect_all(drv.avr))
    /\ drv' = [drv EXCEPT !.events = @ + 1, !.standby = FALSE, !.sleeping = "no",
                          !.avr = connect_all(@)]
    /\ UNCHANGED DriverOthers

\* on_subscribe_entities for one device: a connect() task for each of its
\* ids when the device is configured and not active; the ids are in
\* api.configured_entities by then
subscribe(a, types) ==
    [(IF a.configured /\ ~a.active THEN spawn_connect(a, Cardinality(types)) ELSE a)
        EXCEPT !.subscribed = @ \cup types]

\* on_subscribe_entities(entity_ids)
Subscribe(ids) ==
    /\ drv.events < MaxEvents
    /\ Bounded([d \in Devices |-> subscribe(drv.avr[d], Of(d, ids))])
    /\ drv' = [drv EXCEPT !.events = @ + 1, !.standby = FALSE, !.sleeping = "no",
                          !.avr = [d \in Devices |-> subscribe(@[d], Of(d, ids))]]
    /\ UNCHANGED DriverOthers

\* on_unsubscribe_entities for one device: the ids have left
\* api.configured_entities; a device none of whose entities is left there
\* is disconnected and loses its listeners
unsubscribe(a, types) ==
    IF types # {} /\ a.subscribed \ types = {} /\ a.configured
    THEN [remove_all_listeners(avr_disconnect(a)) EXCEPT !.subscribed = {}]
    ELSE [a EXCEPT !.subscribed = @ \ types]

\* on_unsubscribe_entities(entity_ids)
Unsubscribe(ids) ==
    /\ drv.events < MaxEvents
    /\ drv' = [drv EXCEPT !.events = @ + 1,
                          !.avr = [d \in Devices |-> unsubscribe(@[d], Of(d, ids))]]
    /\ UNCHANGED DriverOthers

\* a connect() task of device d runs to its end
ConnectRun(d) ==
    /\ drv.avr[d].connecting > 0
    /\ drv' = [drv EXCEPT
                 !.avr[d] = [avr_connect(@, drv.reachable[d]) EXCEPT !.connecting = @ - 1]]
    /\ UNCHANGED DriverOthers

\* the connection of device d is lost: its listener ends on a read error
Drop(d) ==
    /\ drv.avr[d].connected
    /\ drv' = [drv EXCEPT !.avr[d].connected = FALSE]
    /\ UNCHANGED DriverOthers

\* the receiver of device d goes off the network or comes back
Reach(d) ==
    /\ drv' = [drv EXCEPT !.reachable[d] = ~@]
    /\ UNCHANGED DriverOthers

\* a gather() that cancels the other polls when one raises
gather_raise_cancels(polls, d) ==
    [e \in Devices |-> IF e = d THEN "raised"
                       ELSE IF polls[e] = "run" THEN "cancelled" ELSE polls[e]]

\* asyncio.gather(*tasks) when the poll of d raises: the exception goes to
\* the poller, the other polls go on
gather_raise(polls, d) == [polls EXCEPT ![d] = "raised"]

\* receiver_status_poller: a cycle begins; the polls of the cycle before
\* have ended by then
PollStart ==
    /\ drv.poller.pc = "sleep"
    /\ ~drv.standby
    /\ \A d \in Devices : drv.poller.tasks[d] # "run"
    /\ LET polls == [d \in Devices |->
                        IF drv.avr[d].configured /\ drv.avr[d].active THEN "run" ELSE "none"]
       IN drv' = [drv EXCEPT
                    !.poller.tasks = polls,
                    !.poller.pc = IF \E d \in Devices : polls[d] = "run"
                                  THEN "gather" ELSE "sleep",
                    !.poller.err = IF @ = 1 THEN 2 ELSE @]
    /\ UNCHANGED DriverOthers

\* async_update_receiver_data() of device d runs to its end: update() sends
\* its queries when the connection is Connected
PollRun(d) ==
    /\ drv.poller.tasks[d] = "run"
    /\ drv' = [drv EXCEPT
                 !.poller.tasks[d] = "done",
                 !.poller.spared = @ \/ (\E e \in Devices : drv.poller.tasks[e] = "raised"),
                 !.polled = @ \/ (drv.sleeping = "yes" /\ drv.avr[d].connected)]
    /\ UNCHANGED DriverOthers

\* the poll of device d raises; the poller, if it waits in gather(), catches
\* the exception and goes to sleep
PollRaise(d) ==
    /\ drv.poller.tasks[d] = "run"
    /\ drv.faults < MaxFaults
    /\ drv' = [drv EXCEPT
                 !.faults = @ + 1,
                 !.poller.tasks = gather_raise(@, d),
                 !.poller.pc = "sleep",
                 !.poller.err = IF drv.poller.pc = "gather" THEN 1 ELSE @]
    /\ UNCHANGED DriverOthers

\* gather() returns: every poll of the cycle has ended
PollDone ==
    /\ drv.poller.pc = "gather"
    /\ \A d \in Devices : drv.poller.tasks[d] # "run"
    /\ drv' = [drv EXCEPT !.poller.pc = "sleep"]
    /\ UNCHANGED DriverOthers

DriverNext ==
    \/ R2Connect
    \/ EnterStandby
    \/ StandbyStep
    \/ ExitStandby
    \/ \E ids \in SUBSET EntityIds \ {{}} : Subscribe(ids)
    \/ \E ids \in SUBSET EntityIds \ {{}} : Unsubscribe(ids)
    \/ \E d \in Devices : ConnectRun(d)
    \/ \E d \in Devices : Drop(d)
    \/ \E d \in Devices : Reach(d)
    \/ PollStart
    \/ \E d \in Devices : PollRun(d)
    \/ \E d \in Devices : PollRaise(d)
    \/ PollDone

SpecDriver == DriverInit /\ [][DriverNext]_vars


\* ---------------------------------------------------------------------------
\* The poller and reconnection
\* ---------------------------------------------------------------------------

\* the steps of the driver in which no event of the remote arrives after the
\* entities are subscribed: connect() tasks run, connections drop, receivers
\* come and go, the poller cycles
LiveNext ==
    \/ \E ids \in SUBSET EntityIds \ {{}} : Subscribe(ids)
    \/ \E d \in Devices : ConnectRun(d)
    \/ \E d \in Devices : Drop(d)
    \/ \E d \in Devices : Reach(d)
    \/ PollStart
    \/ \E d \in Devices : PollRun(d)
    \/ PollDone

\* the event loop runs every task that is ready: the poller wakes from its
\* sleep, each poll and each connect() task runs to its end
LiveFairness ==
    /\ WF_vars(PollStart)
    /\ WF_vars(PollDone)
    /\ \A d \in Devices : WF_vars(PollRun(d))
    /\ \A d \in Devices : WF_vars(ConnectRun(d))

SpecDriverLive == DriverInit /\ [][LiveNext]_vars /\ LiveFairness

\* device d is configured and has no connection, after a connect() that
\* failed or a connection that dropped, while its receiver is reachable and
\* the remote is not in standby
Lost(d) ==
    /\ drv.avr[d].configured
    /\ ~drv.avr[d].connected
    /\ drv.avr[d].failed \/ drv.avr[d].active
    /\ drv.reachable[d]
    /\ ~drv.standby

\* device d is Connected again, or its receiver is off the network, or the
\* remote is in standby
Regained(d) == drv.avr[d].connected \/ ~drv.reachable[d] \/ drv.standby

\* C33: a configured device whose connect failed or whose connection dropped
\* is eventually Connected again once its receiver is reachable, while the
\* remote is not in standby, by the poller alone
C33_PollerReconnects == \A d \in Devices : Lost(d) ~> Regained(d)

\* C34: in a poller cycle a poll that raises ends no other poll of the
\* cycle: a running poll ends only by completing or by raising itself, every
\* other poll stays as it was, and the poller that caught the error is back
\* in its sleep, from which the next cycle begins
C34_PollerIsolation ==
    [][\A d \in Devices :
         (drv.poller.tasks[d] = "run" /\ drv'.poller.tasks[d] # "run") =>
            /\ drv'.poller.tasks[d] \in {"done", "raised"}
            /\ \A e \in Devices \ {d} : drv'.poller.tasks[e] = drv.poller.tasks[e]
            /\ drv'.poller.tasks[d] = "raised" => drv'.poller.pc = "sleep"]_vars

\* a cycle caught an error, another poll of that cycle ran to its end after
\* it, and a later cycle polls again
C34_Witness ==
    /\ drv.poller.err = 2
    /\ drv.poller.spared
    /\ \E d \in Devices : drv.poller.tasks[d] = "run"

\* C35: a configured device that is connected for a subscribed entity has
\* the driver's handlers on its events
C35_HandlersAttached ==
    \A d \in Devices :
        (drv.avr[d].configured /\ drv.avr[d].connected /\ drv.avr[d].subscribed # {})
            => drv.avr[d].handlers

\* C37: while the remote is in standby no configured device is active or
\* Connected and the poller has sent no query
C37_StandbyQuiet ==
    drv.sleeping = "yes" =>
        /\ \A d \in Devices :
               drv.avr[d].configured => ~drv.avr[d].active /\ ~drv.avr[d].connected
        /\ ~drv.polled


\* ---------------------------------------------------------------------------
\* The device configuration (config.py) and its restore (setup_flow.py)
\* ---------------------------------------------------------------------------

Addresses == {"10.0.0.5", "10.0.0.6"}

\* the AvrDevice values: id and address are not empty (__post_init__); name
\* and always_on play no part in what is kept
AvrDevices == [id : Devices, address : Addresses]

\* the keys of _devices
ids_of(mem) == {x.id : x \in mem}

\* Devices.store(): nothing is written when _devices is empty, else the file
\* is rewritten with every device
devices_store(mem, file) ==
    IF mem = {} THEN file ELSE [exists |-> TRUE, devices |-> mem]

\* Devices.load(): no device without the file, else every entry of the file
\* that AvrDevice accepts
devices_load(file) ==
    IF ~file.exists THEN {}
    ELSE {x \in file.devices : x.id \in Devices /\ x.address # ""}

\* on_device_added(device): _configure_new_avr(device, connect=False); a
\* device already configured is disconnected
on_device_added(avr, d) ==
    [avr EXCEPT ![d] = IF @.configured THEN avr_disconnect(@) ELSE NewAvr]

\* on_device_removed(device): the device leaves _configured_avrs
on_device_removed(avr, d) == [avr EXCEPT ![d] = NoAvr]

\* on_device_removed(None): _configured_avrs is cleared
on_config_cleared(avr) == [d \in Devices |-> NoAvr]

\* Devices.add(device) on c = [mem, file, avr]
devices_add(c, device) ==
    IF device.id \in ids_of(c.mem) THEN c
    ELSE [mem |-> c.mem \cup {device},
          file |-> devices_store(c.mem \cup {device}, c.file),
          avr |-> on_device_added(c.avr, device.id)]

\* _devices with the entry of device replaced
replaced(mem, device) == {x \in mem : x.id # device.id} \cup {device}

\* Devices.update(device)
devices_update(c, device) ==
    IF device.id \notin ids_of(c.mem) THEN c
    ELSE [c EXCEPT !.mem = replaced(c.mem, device),
                   !.file = devices_store(replaced(c.mem, device), c.file)]

\* _devices without avr_id
popped(mem, avr_id) == {x \in mem : x.id # avr_id}

\* Devices.remove(avr_id)
devices_remove(c, avr_id) ==
    IF avr_id \notin ids_of(c.mem) THEN c
    ELSE [mem |-> popped(c.mem, avr_id),
          file |-> devices_store(popped(c.mem, avr_id), c.file),
          avr |-> on_device_removed(c.avr, avr_id)]

\* Devices.clear()
devices_clear(c) ==
    [mem |-> {}, file |-> devices_store({}, c.file), avr |-> on_config_cleared(c.avr)]

\* the entries a backup can hold in its 'devices' list: an object of a
\* device, an object whose id is empty, a value that is not an object
BackupEntries ==
    {[kind |-> "device", id |-> d, address |-> DeviceConfig(d).address] : d \in Devices}
        \cup {[kind |-> "blank", id |-> 0, address |-> "10.0.0.5"],
              [kind |-> "scalar", id |-> 0, address |-> ""]}

MaxEntries == 2

\* the texts given to _restore_config: not JSON, JSON without 'devices',
\* 'devices' that is not a list, and the lists of entries
Backups ==
    {[shape |-> s, entries |-> <<>>] : s \in {"invalid", "nokey", "notlist"}}
        \cup {[shape |-> "list", entries |-> es] :
                 es \in UNION {[1..n -> BackupEntries] : n \in 0..MaxEntries}}

RECURSIVE restore_loop(_, _)
\* _restore_config, the loop over devices_data: an entry with an empty id
\* raises ValueError and is skipped, an entry that is not an object raises
\* AttributeError, which ends the restore with False
restore_loop(c, entries) ==
    IF entries = <<>> THEN [c |-> c, result |-> TRUE]
    ELSE IF Head(entries).kind = "scalar" THEN [c |-> c, result |-> FALSE]
    ELSE IF Head(entries).kind = "blank" THEN restore_loop(c, Tail(entries))
    ELSE restore_loop(devices_add(c, [id |-> Head(entries).id,
                                      address |-> Head(entries).address]),
                      Tail(entries))

\* _restore_config(config_json)
restore_config(c, backup) ==
    IF backup.shape # "list" THEN [c |-> c, result |-> FALSE]
    ELSE restore_loop(devices_clear(c), backup.entries)

\* the configuration and the driver's devices, as one value
Kept == [mem |-> store.mem, file |-> store.file, avr |-> drv.avr]

ConfigOthers ==
    <<connVars, sockVars, opVars, devVars, calls, last, codecVars, auxVars>>

\* the call op has turned the configuration into c with the result given
ConfigCall(op, c, result) ==
    /\ store.ops < MaxConfigOps
    /\ store' = [mem |-> c.mem, file |-> c.file, op |-> op, before |-> store.mem,
                 result |-> result, ops |-> store.ops + 1]
    /\ drv' = [drv EXCEPT !.avr = c.avr]
    /\ UNCHANGED ConfigOthers

ConfigAdd(device) == ConfigCall("add", devices_add(Kept, device), TRUE)

ConfigUpdate(device) ==
    ConfigCall("update", devices_update(Kept, device), device.id \in ids_of(store.mem))

ConfigRemove(avr_id) ==
    ConfigCall("remove", devices_remove(Kept, avr_id), avr_id \in ids_of(store.mem))

ConfigClear == ConfigCall("clear", devices_clear(Kept), TRUE)

ConfigRestore(backup) ==
    ConfigCall("restore", restore_config(Kept, backup).c, restore_config(Kept, backup).result)

\* main() with the devices given: each one is configured, none is connected
Started(mem) ==
    [d \in Devices |-> IF d \in ids_of(mem) THEN NewAvr ELSE NoAvr]

\* the driver is started again: Devices.__init__ loads the file
ConfigRestart ==
    ConfigCall("load", [mem |-> devices_load(store.file), file |-> store.file,
                        avr |-> Started(devices_load(store.file))], TRUE)

\* the configuration file of a set of devices; there is no file for no device
StoredSet(S) ==
    IF S = {} THEN NoStore
    ELSE [NoStore EXCEPT !.mem = {DeviceConfig(d) : d \in S},
                         !.file = [exists |-> TRUE, devices |-> {DeviceConfig(d) : d \in S}]]

ConfigInit ==
    /\ ConnInit
    /\ callbacks = DeviceCallbacks
    /\ peerData = {}
    /\ nframes = 0
    /\ CodecIdle
    /\ AuxIdle
    /\ \E S \in SUBSET Devices :
          /\ store = StoredSet(S)
          /\ drv = [NoDriver EXCEPT !.avr = Started(StoredSet(S).mem)]

ConfigNext ==
    \/ \E device \in AvrDevices : ConfigAdd(device)
    \/ \E device \in AvrDevices : ConfigUpdate(device)
    \/ \E avr_id \in Devices : ConfigRemove(avr_id)
    \/ ConfigClear
    \/ \E backup \in Backups : ConfigRestore(backup)
    \/ ConfigRestart

SpecConfig == ConfigInit /\ [][ConfigNext]_vars

\* C38: the configuration file holds exactly the devices in memory: load()
\* of the file gives the devices of _devices
C38_FileMatchesMemory == devices_load(store.file) = store.mem

\* C39: when _restore_config has returned False the devices configured
\* before the call are the devices configured after it
C39_RestoreAllOrNothing ==
    (store.op = "restore" /\ ~store.result) => store.mem = store.before

=============================================================================
